---------------------------- MODULE Spec2Model ----------------------------
(***************************************************************************)
(* A model of the NewsSage text-analytics pipeline                        *)
(* (src/utils/nlp_processor.py): create_summary, extract_people,          *)
(* extract_dates_events, extract_keywords, identify_topics,               *)
(* determine_category and the orchestrator process_article.               *)
(*                                                                         *)
(* The spaCy language model `nlp` is an external, statistical library.    *)
(* Its analysis of a text (sentence spans, entities, tokens with          *)
(* part-of-speech, lemma and stop-word flags, sentence vectors) is an     *)
(* input of the model, drawn from bounded sets, and every call of it may  *)
(* raise.  What the repository's own code does with that analysis is      *)
(* translated statement by statement.                                     *)
(*                                                                         *)
(* Strings.  Text that the code handles character by character (the       *)
(* article text, sentences, date strings) is a sequence of one-character  *)
(* strings.  A token's text or lemma is a record [base, form]: its        *)
(* lower-case spelling and its case pattern, so that str.lower() is a     *)
(* real conversion.  A relevance (a float rounded to 2 decimals) is the   *)
(* integer number of hundredths.                                          *)
(***************************************************************************)
EXTENDS Integers, Sequences, FiniteSets, TLC

VARIABLES
    pc,             \* <<function running, position in it>>
    article,        \* the input text and nlp's analysis of it
    faults,         \* per stage: the error its internal call raises, or NoError
    hash_order,     \* the order this process's string hashing gives a set of terms
    max_keywords,   \* argument of extract_keywords
    max_topics,     \* argument of identify_topics
    sentences_count,\* argument of create_summary
    summary,        \* local of process_article / value of create_summary
    people,         \* local of process_article / value of extract_people
    dates_events,   \* local of process_article / value of extract_dates_events
    category,       \* local of process_article / value of determine_category
    keywords,       \* local of process_article / value of extract_keywords
    topics,         \* local of process_article / value of identify_topics
    exc,            \* the exception in flight (NoError when none)
    result,         \* the value process_article returned
    heap,           \* the dicts and lists of the interpreter, by address
    nlp_result,     \* argument of translate_nlp_result: the address of a dict
    target_language,\* argument of translate_nlp_result and translate_text; in
                    \* app.py, the language selected in the sidebar
    translated_result, \* the address translate_nlp_result returned (0: none yet)
    service_calls,  \* requests made to the translation service
    source_text,    \* argument of translate_text
    translated_text,\* the value translate_text returned
    calls,          \* the calls made so far, each with how it ended
    earlier,        \* what earlier calls of process_article returned, and the
                    \* hash order of the process they ran in
    url,            \* app.py: the text of the URL input
    article_data,   \* app.py: what extract_article returned
    screen,         \* app.py: what the page shows below the button
    document        \* export_utils.py: what an exporter returned or raised

vars == <<pc, article, faults, hash_order, max_keywords, max_topics, sentences_count,
          summary, people, dates_events, category, keywords, topics, exc, result,
          heap, nlp_result, target_language, translated_result, service_calls,
          source_text, translated_text, calls, earlier,
          url, article_data, screen, document>>

\* what a call reads and never writes
inputs == <<article, faults, hash_order, max_keywords, max_topics, sentences_count>>

\* the state of utils/translator.py
translator == <<heap, nlp_result, target_language, translated_result, service_calls,
                source_text, translated_text>>

\* the state of the modules that utils/nlp_processor.py never touches
\* the state of the page of app.py
page == <<url, article_data, screen>>

elsewhere == <<translator, calls, earlier, page, document>>

-----------------------------------------------------------------------------
(* Bounds of the model *)

MaxTokens == 4      \* tokens of a text given to extract_keywords token by token
MaxKwArg == 3       \* largest max_keywords argument tried
MaxFreq == 201      \* largest lemma frequency in the relevance check
MaxSents == 6       \* sentences of a text given to extract_dates_events
MaxParas == 3       \* paragraphs of a text given to identify_topics
MaxTopicsArg == 2   \* largest max_topics argument tried
MaxEnts == 12       \* entities nlp finds in a text given to extract_people
MaxAround == 1      \* sentences before and after a sentence of about 300 characters
MaxEvents == 2      \* entries of the dates_events of a result given to the translator

-----------------------------------------------------------------------------
(* Generic helpers *)

NoError == "NoError"
None == "None"

Min(a, b) == IF a < b THEN a ELSE b

Least(S) == CHOOSE x \in S : \A y \in S : x <= y
Greatest(S) == CHOOSE x \in S : \A y \in S : y <= x

Take(s, n) == SubSeq(s, 1, Min(n, Len(s)))          \* s[:n], n >= 0

Range(s) == {s[i] : i \in 1..Len(s)}

SeqsUpTo(S, n) == UNION {[1..k -> S] : k \in 0..n}

\* The outcome of a Python call: a returned value or a raised exception.
Return(v) == [kind |-> "return", value |-> v]
Raise(e) == [kind |-> "raise", error |-> e]

-----------------------------------------------------------------------------
(* Token strings: [base, form] *)

Word(b, f) == [base |-> b, form |-> f]
lower(w) == Word(w.base, "lower")                    \* str.lower()
len(w) == Len(w.base)                                \* len(str)

\* A token as spaCy presents it.
Tok(t, l, p, s, q) == [text |-> t, lemma_ |-> l, pos_ |-> p, is_stop |-> s, is_punct |-> q]

-----------------------------------------------------------------------------
(* extract_keywords *)

pos_tags == {"NOUN", "PROPN", "ADJ"}

\* Counter: a sequence of <<key, count>> in insertion order.
CounterAdd(c, k, n) ==
    IF \E i \in 1..Len(c) : c[i][1] = k
    THEN [i \in 1..Len(c) |-> IF c[i][1] = k THEN <<k, c[i][2] + n>> ELSE c[i]]
    ELSE Append(c, <<k, n>>)

\* (mutant) equal counts ranked latest insertion first
RankOf_ties_reversed(c, i) ==
    1 + Cardinality({j \in 1..Len(c) :
                        \/ c[j][2] > c[i][2]
                        \/ c[j][2] = c[i][2] /\ j > i})

\* The rank (1-based) Counter.most_common gives entry i: descending count,
\* equal counts in insertion order.
RankOf(c, i) ==
    1 + Cardinality({j \in 1..Len(c) :
                        \/ c[j][2] > c[i][2]
                        \/ c[j][2] = c[i][2] /\ j < i})

MostCommonAll(c) ==
    [r \in 1..Len(c) |-> c[CHOOSE i \in 1..Len(c) : RankOf(c, i) = r]]

\* Counter.most_common(n) for n >= 0
most_common(c, n) == Take(MostCommonAll(c), n)

\* The first pass of extract_keywords over the tokens; a run <<tok, reps>> is
\* the token tok occurring reps times in a row.
RECURSIVE CountKeywords(_, _)
CountKeywords(runs, word_freq) ==
    IF runs = <<>> THEN word_freq
    ELSE LET token == Head(runs)[1]
             reps == Head(runs)[2]
         IN IF /\ token.pos_ \in pos_tags
               /\ ~token.is_stop
               /\ ~token.is_punct
               /\ len(token.text) > 2
            THEN CountKeywords(Tail(runs), CounterAdd(word_freq, lower(token.lemma_), reps))
            ELSE CountKeywords(Tail(runs), word_freq)

\* Python's round(freq / max_freq, 2), in hundredths.  The quotient is the
\* double nearest to freq/max_freq and round() rounds that double correctly;
\* when freq/max_freq is exactly k.5 hundredths the double lies just above
\* or just below, or (k = 12, 37, 62, 87) is exact and rounds half to even.
\* TieUp lists the k for which round() yields k + 1.
TieUp == {0, 2, 3, 5, 6, 8, 9, 11, 13, 16, 19, 22, 25, 26, 27, 31, 32, 33, 37,
          38, 39, 40, 44, 45, 46, 50, 51, 52, 53, 54, 55, 63, 64, 65, 66, 67,
          68, 75, 76, 77, 78, 79, 80, 87, 88, 89, 90, 91, 92, 93}

\* (mutant) the score cut to 2 decimals instead of rounded
Round2_truncated(freq, max_freq) == (100 * freq) \div max_freq

Round2(freq, max_freq) ==
    LET q == (100 * freq) \div max_freq
        r == (100 * freq) % max_freq
    IN IF 2 * r < max_freq THEN q
       ELSE IF 2 * r > max_freq THEN q + 1
       ELSE IF q \in TieUp THEN q + 1 ELSE q

\* max_freq = word_freq.most_common(1)[0][1] if word_freq else 1
MaxFreqOf(word_freq) ==
    IF word_freq = <<>> THEN 1 ELSE most_common(word_freq, 1)[1][2]

KeywordsOf(word_freq, n) ==
    LET max_freq == MaxFreqOf(word_freq)
        top == most_common(word_freq, n)
    IN [i \in 1..Len(top) |->
            [text |-> top[i][1], relevance |-> Round2(top[i][2], max_freq)]]

\* (mutant) max_freq taken without the test for an empty counter
extract_keywords_unguarded(fault, runs, n) ==
    IF fault # NoError THEN Raise(fault)
    ELSE IF CountKeywords(runs, <<>>) = <<>> THEN Raise("IndexError: list index out of range")
    ELSE Return(KeywordsOf(CountKeywords(runs, <<>>), n))

\* extract_keywords(text, max_keywords): nlp(text) raises fault, or yields runs
extract_keywords(fault, runs, n) ==
    IF fault # NoError THEN Raise(fault)
    ELSE Return(KeywordsOf(CountKeywords(runs, <<>>), n))

-----------------------------------------------------------------------------
(* extract_people *)

\* An entity as spaCy presents it
Ent(label, text) == [label_ |-> label, text |-> text]

\* (mutant) a name is taken as seen before whatever its letter case
RECURSIVE CollectPeople_caseless(_, _)
CollectPeople_caseless(ents, acc) ==
    IF ents = <<>> THEN acc
    ELSE LET ent == Head(ents)
         IN IF ent.label_ = "PERSON" /\ ent.text.base \notin {acc[i].base : i \in 1..Len(acc)}
            THEN CollectPeople_caseless(Tail(ents), Append(acc, ent.text))
            ELSE CollectPeople_caseless(Tail(ents), acc)

\* the loop body: append ent.text if it is a PERSON not yet in people
RECURSIVE CollectPeople(_, _)
CollectPeople(ents, acc) ==
    IF ents = <<>> THEN acc
    ELSE LET ent == Head(ents)
         IN IF ent.label_ = "PERSON" /\ ent.text \notin Range(acc)
            THEN CollectPeople(Tail(ents), Append(acc, ent.text))
            ELSE CollectPeople(Tail(ents), acc)

\* (mutant) without the try/except around the recognizer
extract_people_unprotected(fault, ents) ==
    IF fault # NoError THEN Raise(fault)
    ELSE Return(Take(CollectPeople(ents, <<>>), 10))

\* extract_people(text): nlp(text) raises fault, or yields the entities
\* ents; any Exception inside the try block returns []
extract_people(fault, ents) ==
    IF fault # NoError THEN Return(<<>>)
    ELSE Return(Take(CollectPeople(ents, <<>>), 10))

-----------------------------------------------------------------------------
(* Character strings: sequences of one-character strings *)

UpperChars == <<"A", "B", "C", "D", "E", "F", "G", "H", "I", "J", "K", "L", "M", "N", "O", "P"
                , "Q", "R", "S", "T", "U", "V", "W", "X", "Y", "Z">>
LowerChars == <<"a", "b", "c", "d", "e", "f", "g", "h", "i", "j", "k", "l", "m", "n", "o", "p"
                , "q", "r", "s", "t", "u", "v", "w", "x", "y", "z">>
DigitChars == {"0", "1", "2", "3", "4", "5", "6", "7", "8", "9"}
Whitespace == {" ", "\n", "\t"}

IndexIn(seq, c) == CHOOSE i \in 1..Len(seq) : seq[i] = c

LowerChar(c) == IF c \in Range(UpperChars) THEN LowerChars[IndexIn(UpperChars, c)] ELSE c
UpperChar(c) == IF c \in Range(LowerChars) THEN UpperChars[IndexIn(LowerChars, c)] ELSE c

\* str.lower()
str_lower(s) == [i \in 1..Len(s) |-> LowerChar(s[i])]

\* str.capitalize(): first character upper-cased, the rest lower-cased
capitalize(s) == [i \in 1..Len(s) |-> IF i = 1 THEN UpperChar(s[i]) ELSE LowerChar(s[i])]

\* str.strip()
strip(s) ==
    IF \A i \in 1..Len(s) : s[i] \in Whitespace THEN <<>>
    ELSE SubSeq(s,
                CHOOSE i \in 1..Len(s) :
                    s[i] \notin Whitespace /\ \A j \in 1..(i - 1) : s[j] \in Whitespace,
                CHOOSE i \in 1..Len(s) :
                    s[i] \notin Whitespace /\ \A j \in (i + 1)..Len(s) : s[j] \in Whitespace)

\* sub occurs in s at position i
OccursAt(s, sub, i) ==
    /\ i + Len(sub) - 1 <= Len(s)
    /\ \A k \in 1..Len(sub) : s[i + k - 1] = sub[k]

\* `sub in s`
contains(s, sub) == \E i \in 1..(Len(s) + 1) : OccursAt(s, sub, i)

\* s.replace(old, ""): the occurrences of old removed, left to right
RECURSIVE remove_all(_, _)
remove_all(s, old) ==
    IF old = <<>> \/ Len(s) < Len(old) THEN s
    ELSE IF OccursAt(s, old, 1) THEN remove_all(SubSeq(s, Len(old) + 1, Len(s)), old)
    ELSE <<Head(s)>> \o remove_all(Tail(s), old)

-----------------------------------------------------------------------------
(* The date patterns of extract_dates_events.  A position p is the index of *)
(* the next character to read; each step maps the set of positions a match  *)
(* may have reached to the set it may reach next.                           *)

MonthForms ==
    { <<"J", "a", "n">>,
      <<"J", "a", "n", "u", "a", "r", "y">>,
      <<"F", "e", "b">>,
      <<"F", "e", "b", "r", "u", "a", "r", "y">>,
      <<"M", "a", "r">>,
      <<"M", "a", "r", "c", "h">>,
      <<"A", "p", "r">>,
      <<"A", "p", "r", "i", "l">>,
      <<"M", "a", "y">>,
      <<"J", "u", "n">>,
      <<"J", "u", "n", "e">>,
      <<"J", "u", "l">>,
      <<"J", "u", "l", "y">>,
      <<"A", "u", "g">>,
      <<"A", "u", "g", "u", "s", "t">>,
      <<"S", "e", "p">>,
      <<"S", "e", "p", "t", "e", "m", "b", "e", "r">>,
      <<"O", "c", "t">>,
      <<"O", "c", "t", "o", "b", "e", "r">>,
      <<"N", "o", "v">>,
      <<"N", "o", "v", "e", "m", "b", "e", "r">>,
      <<"D", "e", "c">>,
      <<"D", "e", "c", "e", "m", "b", "e", "r">> }

WeekdayForms ==
    { <<"M", "o", "n", "d", "a", "y">>,
      <<"T", "u", "e", "s", "d", "a", "y">>,
      <<"W", "e", "d", "n", "e", "s", "d", "a", "y">>,
      <<"T", "h", "u", "r", "s", "d", "a", "y">>,
      <<"F", "r", "i", "d", "a", "y">>,
      <<"S", "a", "t", "u", "r", "d", "a", "y">>,
      <<"S", "u", "n", "d", "a", "y">> }

IsWordChar(c) == c \in Range(UpperChars) \/ c \in Range(LowerChars) \/ c \in DigitChars \/ c = "_"

\* \b at position p
AtWordBoundary(s, p) ==
    LET before == p > 1 /\ IsWordChar(s[p - 1])
        after == p <= Len(s) /\ IsWordChar(s[p])
    IN before # after

Boundary(s, P) == {p \in P : AtWordBoundary(s, p)}

\* one of the literals
OneOf(s, P, literals) ==
    UNION {{p + Len(l) : l \in {x \in literals : OccursAt(s, x, p)}} : p \in P}

\* between lo and hi characters of the class
Repeat(s, P, class, lo, hi) ==
    UNION {{q \in (p + lo)..Min(p + hi, Len(s) + 1) : \A i \in p..(q - 1) : s[i] \in class} :
           p \in P}

Month(s, P) == OneOf(s, P, MonthForms)
Spaces(s, P) == Repeat(s, P, Whitespace, 1, Len(s))           \* \s+
Digits(s, P, lo, hi) == Repeat(s, P, DigitChars, lo, hi)      \* \d{lo,hi}

\* \bMonth\s+\d{1,2}(?:st|nd|rd|th)?,\s+\d{4}\b
Pattern1(s, i) ==
    LET day == Digits(s, Spaces(s, Month(s, Boundary(s, {i}))), 1, 2)
        suffix == day \cup OneOf(s, day, {<<"s", "t">>, <<"n", "d">>, <<"r", "d">>, <<"t", "h">>})
    IN Boundary(s, Digits(s, Spaces(s, OneOf(s, suffix, {<<",">>})), 4, 4))

\* \b\d{1,2}\s+Month\s+\d{4}\b
Pattern2(s, i) ==
    Boundary(s, Digits(s, Spaces(s, Month(s, Spaces(s, Digits(s, Boundary(s, {i}), 1, 2)))), 4, 4))

\* \bWeekday,\s+Month\s+\d{1,2}\b
Pattern3(s, i) ==
    Boundary(s, Digits(s, Spaces(s, Month(s, Spaces(s,
        OneOf(s, OneOf(s, Boundary(s, {i}), WeekdayForms), {<<",">>})))), 1, 2))

PatternEnds(k, s, i) ==
    CASE k = 1 -> Pattern1(s, i) [] k = 2 -> Pattern2(s, i) [] k = 3 -> Pattern3(s, i)

\* The outcome of a search for a date: found or not, and the text found
Found(t) == [has_date |-> TRUE, date_str |-> t]
NotFound == [has_date |-> FALSE, date_str |-> <<>>]

\* group(0) of the match of pattern k that starts at i
MatchAt(k, s, i) == Found(SubSeq(s, i, Greatest(PatternEnds(k, s, i)) - 1))

\* the match at the leftmost of the starting positions
LeftmostMatch(k, s, starts) == IF starts = {} THEN NotFound ELSE MatchAt(k, s, Least(starts))

\* re.search(pattern k, s): the match at the leftmost starting position
\* (each pattern has at most one match per start) and its group(0)
re_search(k, s) == LeftmostMatch(k, s, {i \in 1..Len(s) : PatternEnds(k, s, i) # {}})

-----------------------------------------------------------------------------
(* extract_dates_events *)

time_indicators ==
    << <<"t", "o", "d", "a", "y">>,
       <<"y", "e", "s", "t", "e", "r", "d", "a", "y">>,
       <<"l", "a", "s", "t", " ", "w", "e", "e", "k">>,
       <<"l", "a", "s", "t", " ", "m", "o", "n", "t", "h">>,
       <<"l", "a", "s", "t", " ", "y", "e", "a", "r">>,
       <<"t", "h", "i", "s", " ", "w", "e", "e", "k">>,
       <<"t", "h", "i", "s", " ", "m", "o", "n", "t", "h">>,
       <<"t", "h", "i", "s", " ", "y", "e", "a", "r">>,
       <<"n", "e", "x", "t", " ", "w", "e", "e", "k">> >>

\* lines 152-157: the first DATE entity of nlp(sentence)
FirstDateEntity(ents) ==
    LET dates == SelectSeq(ents, LAMBDA ent : ent.label_ = "DATE")
    IN IF dates = <<>> THEN NotFound ELSE Found(dates[1].text)

\* the first of the outcomes that found a date, or the last of them
FirstFound(first, second, third) ==
    IF first.has_date THEN first ELSE IF second.has_date THEN second ELSE third

\* lines 160-166: the first date pattern that matches
FirstPatternMatch(sentence) ==
    FirstFound(re_search(1, sentence), re_search(2, sentence), re_search(3, sentence))

\* the first time indicator among those the sentence holds, capitalized
IndicatorOf(hits) ==
    IF hits = {} THEN NotFound ELSE Found(capitalize(time_indicators[Least(hits)]))

\* `indicator in sentence.lower()`
HasIndicator(low, k) == contains(low, time_indicators[k])

IndicatorsIn(low) == {k \in 1..Len(time_indicators) : HasIndicator(low, k)}

\* lines 172-177: the first time indicator in sentence.lower(), capitalized
FirstIndicator(sentence) == IndicatorOf(IndicatorsIn(str_lower(sentence)))

\* (mutant) the date patterns are tried before the DATE entities
DateOf_patterns_first(sentence, ents) ==
    FirstFound(FirstPatternMatch(sentence), FirstDateEntity(ents), FirstIndicator(sentence))

\* has_date and date_str as the three steps of the loop body leave them
DateOf(sentence, ents) ==
    FirstFound(FirstDateEntity(ents), FirstPatternMatch(sentence), FirstIndicator(sentence))

\* event = sentence.replace(date_str, "").strip()
EventOf(sentence, date_str) == strip(remove_all(sentence, date_str))

\* A sentence of doc.sents: the span's text, and the entities and the vector
\* (0: no vector) that nlp gives the stripped sentence
Sent(text, ents, vec) == [text |-> text, ents |-> ents, vec |-> vec]

\* lines 185-187: the event is kept when it is longer than 10 characters
AddEvent(acc, date_str, event) ==
    IF Len(event) > 10 THEN Append(acc, [date |-> date_str, event |-> event]) ELSE acc

\* (mutant) a sentence of exactly 300 characters is taken too
AddFound_inclusive(acc, sentence, found) ==
    IF found.has_date /\ Len(sentence) <= 300
    THEN AddEvent(acc, found.date_str, EventOf(sentence, found.date_str))
    ELSE acc

\* lines 180-187: what a sentence with the outcome found adds to dates_events
AddFound(acc, sentence, found) ==
    IF found.has_date /\ Len(sentence) < 300
    THEN AddEvent(acc, found.date_str, EventOf(sentence, found.date_str))
    ELSE acc

\* the loop body for one sentence of doc.sents
AddSentence(acc, sentence, ents) == AddFound(acc, sentence, DateOf(sentence, ents))

\* the loop over the sentences
RECURSIVE CollectDates(_, _)
CollectDates(sents, acc) ==
    IF sents = <<>> THEN acc
    ELSE CollectDates(Tail(sents), AddSentence(acc, strip(Head(sents).text), Head(sents).ents))

\* extract_dates_events(text): nlp raises fault, or yields the sentences
extract_dates_events(fault, sents) ==
    IF fault # NoError THEN Raise(fault)
    ELSE Return(Take(CollectDates(sents, <<>>), 5))

-----------------------------------------------------------------------------
(* create_summary *)

\* sentences = [sent.text.strip() for sent in doc.sents]
StrippedSentences(sents) == [i \in 1..Len(sents) |-> strip(sents[i].text)]

\* similarity_matrix[i][j]: doc_i.similarity(doc_j), the cosine of the two
\* sentence vectors, when both have a norm; sentence vectors are modelled
\* as 1, -1 or 0 (no vector), whose cosine is their product
Similarity(sents, i, j) ==
    IF i # j /\ sents[i].vec # 0 /\ sents[j].vec # 0 THEN sents[i].vec * sents[j].vec ELSE 0

RECURSIVE RowSum(_, _, _)
RowSum(sents, i, j) ==
    IF j = 0 THEN 0 ELSE Similarity(sents, i, j) + RowSum(sents, i, j - 1)

\* sentence_scores = np.sum(similarity_matrix, axis=1)
SentenceScore(sents, i) == RowSum(sents, i, Len(sents))

\* (mutant) the sentences that score least are taken
TopIndices_lowest(sents, n) ==
    {top \in SUBSET (1..Len(sents)) :
        /\ Cardinality(top) = n
        /\ \A i \in top : \A j \in (1..Len(sents)) \ top :
              SentenceScore(sents, i) <= SentenceScore(sents, j)}

\* np.argsort(sentence_scores)[::-1][:n] as a set: n indices none of which
\* scores less than one left out.  The default sort is not stable, so among
\* equal scores any may be taken.
TopIndices(sents, n) ==
    {top \in SUBSET (1..Len(sents)) :
        /\ Cardinality(top) = n
        /\ \A i \in top : \A j \in (1..Len(sents)) \ top :
              SentenceScore(sents, i) >= SentenceScore(sents, j)}

\* ' '.join([sentences[i] for i in sorted(top_indices)])
RECURSIVE JoinSelected(_, _, _)
JoinSelected(sentences, top, from) ==
    IF from > Len(sentences) THEN <<>>
    ELSE IF from \in top
         THEN sentences[from] \o
              (IF \E k \in top : k > from THEN <<" ">> ELSE <<>>) \o
              JoinSelected(sentences, top, from + 1)
         ELSE JoinSelected(sentences, top, from + 1)

\* (mutant) the short-text test with < for <=
create_summary_strict(fault, text, sents, n) ==
    IF fault # NoError THEN {Raise(fault)}
    ELSE IF Len(sents) < n THEN {Return(text)}
    ELSE {Return(JoinSelected(StrippedSentences(sents), top, 1)) : top \in TopIndices(sents, n)}

\* create_summary(text, sentences_count): the outcomes it can have; nlp
\* raises fault, or yields the sentence spans sents
create_summary(fault, text, sents, n) ==
    IF fault # NoError THEN {Raise(fault)}
    ELSE IF Len(sents) <= n THEN {Return(text)}
    ELSE {Return(JoinSelected(StrippedSentences(sents), top, 1)) : top \in TopIndices(sents, n)}

-----------------------------------------------------------------------------
(* determine_category *)

\* The taxonomy, in the declaration order of the dict
CategoryOrder == <<"Politics", "Business", "Technology", "Health", "Sports",
                   "Entertainment", "Science">>

category_keywords(c) ==
    CASE c = "Politics" ->
           {"government", "president", "election", "vote", "party", "senator", "congress",
            "democrat", "republican", "policy", "political", "bill", "law", "court", "justice"}
      [] c = "Business" ->
           {"market", "stock", "company", "economy", "economic", "finance", "financial", "trade",
            "investment", "investor", "profit", "bank", "industry", "corporate", "ceo"}
      [] c = "Technology" ->
           {"tech", "technology", "software", "hardware", "digital", "internet", "computer", "app",
            "device", "startup", "innovation", "developer", "programming", "ai",
            "artificial intelligence"}
      [] c = "Health" ->
           {"health", "medical", "doctor", "patient", "hospital", "disease", "treatment", "drug",
            "medicine", "vaccine", "virus", "pandemic", "care", "healthcare", "covid"}
      [] c = "Sports" ->
           {"game", "team", "player", "season", "match", "win", "score", "championship", "coach",
            "league", "tournament", "athlete", "sport", "football", "soccer", "basketball",
            "baseball"}
      [] c = "Entertainment" ->
           {"movie", "film", "show", "music", "actor", "actress", "celebrity", "star", "director",
            "release", "award", "performance", "entertainment", "hollywood", "tv", "television"}
      [] c = "Science" ->
           {"science", "research", "study", "scientist", "discovery", "space", "physics",
            "biology", "chemistry", "experiment", "theory", "academic", "climate",
            "environment", "earth"}

\* `word in keywords`: the keywords are lower-case literals
InKeywords(word, c) == word.form = "lower" /\ word.base \in category_keywords(c)

\* (mutant) the tokens compared without .lower()
CategoryWords_not_lowered(runs) ==
    LET keep == SelectSeq(runs, LAMBDA r : ~r[1].is_stop /\ ~r[1].is_punct)
    IN [i \in 1..Len(keep) |-> <<keep[i][1].text, keep[i][2]>>]

\* words = [token.text.lower() for token in doc if not token.is_stop and
\* not token.is_punct], as runs <<word, repetitions>>
CategoryWords(runs) ==
    LET keep == SelectSeq(runs, LAMBDA r : ~r[1].is_stop /\ ~r[1].is_punct)
    IN [i \in 1..Len(keep) |-> <<lower(keep[i][1].text), keep[i][2]>>]

RECURSIVE CategoryScore(_, _)
CategoryScore(words, c) ==
    IF words = <<>> THEN 0
    ELSE (IF InKeywords(Head(words)[1], c) THEN Head(words)[2] ELSE 0)
         + CategoryScore(Tail(words), c)

\* (mutant) the last key of the highest score
FirstMax_last(order, score) ==
    order[CHOOSE i \in 1..Len(order) :
            /\ \A j \in 1..Len(order) : score[order[j]] <= score[order[i]]
            /\ \A j \in (i + 1)..Len(order) : score[order[j]] < score[order[i]]]

\* max(scores.items(), key=lambda x: x[1])[0]: the first key, in the order
\* given, whose score no other exceeds
FirstMax(order, score) ==
    order[CHOOSE i \in 1..Len(order) :
            /\ \A j \in 1..Len(order) : score[order[j]] <= score[order[i]]
            /\ \A j \in 1..(i - 1) : score[order[j]] < score[order[i]]]

\* determine_category(text): nlp(text) raises fault, or yields runs
determine_category(fault, runs) ==
    IF fault # NoError THEN Raise(fault)
    ELSE LET words == CategoryWords(runs)
             category_scores == [c \in Range(CategoryOrder) |-> CategoryScore(words, c)]
         IN IF \A c \in DOMAIN category_scores : category_scores[c] = 0
            THEN Return("General")
            ELSE Return(FirstMax(CategoryOrder, category_scores))

-----------------------------------------------------------------------------
(* identify_topics *)

\* text.split('\n\n')
RECURSIVE split_blank_line(_)
SplitAt(s, i) == <<SubSeq(s, 1, i - 1)>> \o split_blank_line(SubSeq(s, i + 2, Len(s)))

split_blank_line(s) ==
    IF \A i \in 1..Len(s) : ~OccursAt(s, <<"\n", "\n">>, i) THEN <<s>>
    ELSE SplitAt(s, Least({i \in 1..Len(s) : OccursAt(s, <<"\n", "\n">>, i)}))

\* paragraphs = [p.strip() for p in text.split('\n\n') if p.strip()]
Paragraphs(text) ==
    LET parts == split_blank_line(text)
        stripped == [i \in 1..Len(parts) |-> strip(parts[i])]
    IN SelectSeq(stripped, LAMBDA q : q # <<>>)

\* key_terms of one paragraph, from the tokens (runs) of nlp(paragraph)
RECURSIVE KeyTerms(_)
KeyTerms(runs) ==
    IF runs = <<>> THEN <<>>
    ELSE LET token == Head(runs)[1]
         IN IF /\ token.pos_ \in {"NOUN", "PROPN"}
               /\ ~token.is_stop
               /\ len(token.text) > 2
            THEN [k \in 1..Head(runs)[2] |-> lower(token.lemma_)] \o KeyTerms(Tail(runs))
            ELSE KeyTerms(Tail(runs))

\* keyword_groups: the <<i, key_terms>> of the paragraphs that are at least
\* 100 characters long and have more than one key term, i counting from 1
RECURSIVE KeywordGroups(_, _, _)
KeywordGroups(paragraphs, paras, i) ==
    IF i > Len(paragraphs) THEN <<>>
    ELSE IF Len(paragraphs[i]) < 100 THEN KeywordGroups(paragraphs, paras, i + 1)
    ELSE LET key_terms == KeyTerms(paras[i])
         IN IF Len(key_terms) > 1
            THEN <<(<<i, key_terms>>)>> \o KeywordGroups(paragraphs, paras, i + 1)
            ELSE KeywordGroups(paragraphs, paras, i + 1)

\* category_matches after the loops over one term and the categories from
\* position k of the taxonomy on
RECURSIVE MatchTerm(_, _, _)
MatchTerm(term, k, matches) ==
    IF k > Len(CategoryOrder) THEN matches
    ELSE MatchTerm(term, k + 1,
                   IF InKeywords(term, CategoryOrder[k])
                   THEN CounterAdd(matches, CategoryOrder[k], 1) ELSE matches)

RECURSIVE CategoryMatches(_, _)
CategoryMatches(terms, matches) ==
    IF terms = <<>> THEN matches
    ELSE CategoryMatches(Tail(terms), MatchTerm(Head(terms), 1, matches))

\* max(category_matches.items(), key=lambda x: x[1])[0] if category_matches
\* else "General": the first entry, in insertion order, of the highest count
MainCategory(terms) ==
    LET matches == CategoryMatches(terms, <<>>)
    IN IF matches = <<>> THEN "General"
       ELSE matches[CHOOSE i \in 1..Len(matches) :
                      /\ \A j \in 1..Len(matches) : matches[j][2] <= matches[i][2]
                      /\ \A j \in 1..(i - 1) : matches[j][2] < matches[i][2]][1]

\* Counter(terms)
RECURSIVE CounterOf(_, _)
CounterOf(terms, c) ==
    IF terms = <<>> THEN c ELSE CounterOf(Tail(terms), CounterAdd(c, Head(terms), 1))

\* (mutant) the four most frequent terms
MainTerms_four(terms) ==
    LET top == most_common(CounterOf(terms, <<>>), 4)
    IN [i \in 1..Len(top) |-> top[i][1]]

\* main_terms = [term for term, count in term_counts.most_common(3)]
MainTerms(terms) ==
    LET top == most_common(CounterOf(terms, <<>>), 3)
    IN [i \in 1..Len(top) |-> top[i][1]]

\* f"{main_category}: {', '.join(main_terms)}", as the pieces of the string
RECURSIVE CommaJoin(_)
CommaJoin(terms) ==
    IF terms = <<>> THEN <<>>
    ELSE IF Len(terms) = 1 THEN <<terms[1].base>>
    ELSE <<terms[1].base, ", ">> \o CommaJoin(Tail(terms))

TopicName(main_category, main_terms) == <<main_category, ": ">> \o CommaJoin(main_terms)

\* list(set(terms)): the distinct terms in the order the process's string
\* hashing gives them, order being a sequence of spellings
ListOfSet(terms, order) ==
    LET present == SelectSeq(order, LAMBDA b : \E i \in 1..Len(terms) : terms[i].base = b)
    IN [i \in 1..Len(present) |-> Word(present[i], "lower")]

\* (mutant) the keyword list of a topic not cut to 5
TopicOf_uncut(terms, order) ==
    [name |-> TopicName(MainCategory(terms), MainTerms(terms)),
     keywords |-> ListOfSet(terms, order)]

\* the topic made of one keyword group
TopicOf(terms, order) ==
    [name |-> TopicName(MainCategory(terms), MainTerms(terms)),
     keywords |-> Take(ListOfSet(terms, order), 5)]

\* (mutant) topics with equally many keywords come out in reverse order
SortedTopics_ties_reversed(topicList) ==
    LET rank(i) == 1 + Cardinality({j \in 1..Len(topicList) :
                        \/ Len(topicList[j].keywords) > Len(topicList[i].keywords)
                        \/ /\ Len(topicList[j].keywords) = Len(topicList[i].keywords)
                           /\ j > i})
    IN [r \in 1..Len(topicList) |-> topicList[CHOOSE i \in 1..Len(topicList) : rank(i) = r]]

\* sorted(topics, key=lambda x: len(x["keywords"]), reverse=True): a stable
\* sort, topics with equally many keywords keep their order
SortedTopics(topicList) ==
    LET rank(i) == 1 + Cardinality({j \in 1..Len(topicList) :
                        \/ Len(topicList[j].keywords) > Len(topicList[i].keywords)
                        \/ /\ Len(topicList[j].keywords) = Len(topicList[i].keywords)
                           /\ j < i})
    IN [r \in 1..Len(topicList) |-> topicList[CHOOSE i \in 1..Len(topicList) : rank(i) = r]]

\* (mutant) every topic returned, max_topics ignored
identify_topics_uncapped(fault, text, paras, order, n) ==
    IF fault # NoError THEN Raise(fault)
    ELSE LET groups == KeywordGroups(Paragraphs(text), paras, 1)
             topicList == [g \in 1..Len(groups) |-> TopicOf(groups[g][2], order)]
         IN Return(SortedTopics(topicList))

\* identify_topics(text, max_topics): nlp raises fault, or yields for the
\* i-th paragraph the tokens paras[i]
identify_topics(fault, text, paras, order, n) ==
    IF fault # NoError THEN Raise(fault)
    ELSE LET groups == KeywordGroups(Paragraphs(text), paras, 1)
             topicList == [g \in 1..Len(groups) |-> TopicOf(groups[g][2], order)]
         IN Return(Take(SortedTopics(topicList), n))

-----------------------------------------------------------------------------
(* The inputs *)

Stages == {"summary", "people", "dates_events", "category", "keywords", "topics"}

AllOK == [s \in Stages |-> NoError]
FaultAt(s, e) == [AllOK EXCEPT ![s] = e]

ErrorMessages == {"[E088] Text exceeds maximum length", "[E002] Can't find factory"}

\* An article nlp finds nothing in.
EmptyArticle == [text |-> <<>>, sents |-> <<>>, ents |-> <<>>, tokens |-> <<>>, paras |-> <<>>]

\* No call of the translator: an empty heap
NoTranslation ==
    /\ heap = <<>> /\ nlp_result = 0 /\ translated_result = 0
    /\ target_language = "English" /\ service_calls = 0
    /\ source_text = None /\ translated_text = None
    /\ calls = <<>>

\* The page before the button is pressed
NoData == [success |-> FALSE]
NoPage == url = <<>> /\ article_data = NoData /\ screen = <<>>

\* The state outside the inputs, before a call has run.
Fresh ==
    /\ summary = None /\ people = None /\ dates_events = None
    /\ category = None /\ keywords = None /\ topics = None
    /\ exc = NoError /\ result = None
    /\ NoTranslation
    /\ earlier = <<>>
    /\ NoPage
    /\ document = <<>>

\* The terms a topic is made of, and the default iteration order of a set of them
TopicTerms == <<"market", "bank", "election", "team", "storm", "city", "river">>

DefaultArgs ==
    /\ max_keywords = 10 /\ max_topics = 5 /\ sentences_count = 5
    /\ hash_order = TopicTerms

\* Tokens tried on extract_keywords
KwTokens ==
    { Tok(Word("markets", "Title"), Word("market", "lower"), "NOUN", FALSE, FALSE),
      Tok(Word("market", "lower"), Word("market", "lower"), "NOUN", FALSE, FALSE),
      Tok(Word("bank", "Title"), Word("bank", "Title"), "PROPN", FALSE, FALSE),
      Tok(Word("economic", "lower"), Word("economic", "lower"), "ADJ", FALSE, FALSE),
      Tok(Word("other", "lower"), Word("other", "lower"), "ADJ", TRUE, FALSE),
      Tok(Word("ai", "UPPER"), Word("ai", "UPPER"), "PROPN", FALSE, FALSE),
      Tok(Word("said", "lower"), Word("say", "lower"), "VERB", FALSE, FALSE),
      Tok(Word("...", "lower"), Word("...", "lower"), "NOUN", FALSE, TRUE) }

-----------------------------------------------------------------------------
(* A call of extract_keywords by itself *)

InitKw ==
    /\ pc = <<"extract_keywords", "call">>
    /\ \E runs \in SeqsUpTo(KwTokens \X {1}, MaxTokens) :
          article = [EmptyArticle EXCEPT !.tokens = runs]
    /\ faults \in {AllOK, FaultAt("keywords", "[E088] Text exceeds maximum length")}
    /\ max_keywords \in 0..MaxKwArg
    /\ max_topics = 5 /\ sentences_count = 5 /\ hash_order = TopicTerms
    /\ Fresh

\* Two qualifying lemmas of any frequencies up to MaxFreq
InitKwWide ==
    /\ pc = <<"extract_keywords", "call">>
    /\ \E a \in 1..MaxFreq, b \in 1..MaxFreq :
          article = [EmptyArticle EXCEPT !.tokens =
              << <<Tok(Word("market", "lower"), Word("market", "lower"), "NOUN", FALSE, FALSE), a>>,
                 <<Tok(Word("bank", "Title"), Word("bank", "Title"), "PROPN", FALSE, FALSE), b>> >>]
    /\ faults = AllOK
    /\ max_keywords \in {1, 10}
    /\ max_topics = 5 /\ sentences_count = 5 /\ hash_order = TopicTerms
    /\ Fresh

Call_extract_keywords ==
    /\ pc = <<"extract_keywords", "call">>
    /\ \E r \in {extract_keywords(faults["keywords"], article.tokens, max_keywords)} :
          IF r.kind = "raise"
          THEN /\ exc' = r.error /\ pc' = <<"extract_keywords", "raised">>
               /\ UNCHANGED keywords
          ELSE /\ keywords' = r.value /\ pc' = <<"extract_keywords", "returned">>
               /\ UNCHANGED exc
    /\ UNCHANGED <<inputs, elsewhere, summary, people, dates_events, category, topics, result>>

SpecKw == InitKw /\ [][Call_extract_keywords]_vars
SpecKwWide == InitKwWide /\ [][Call_extract_keywords]_vars

-----------------------------------------------------------------------------
(* A call of determine_category by itself *)

\* Tokens tried on determine_category
CatTokens ==
    { Tok(Word("market", "Title"), Word("market", "lower"), "NOUN", FALSE, FALSE),
      Tok(Word("election", "lower"), Word("election", "lower"), "NOUN", FALSE, FALSE),
      Tok(Word("win", "UPPER"), Word("win", "lower"), "VERB", FALSE, FALSE),
      Tok(Word("show", "lower"), Word("show", "lower"), "VERB", TRUE, FALSE),
      Tok(Word("star", "lower"), Word("star", "lower"), "NOUN", FALSE, TRUE),
      Tok(Word("weather", "lower"), Word("weather", "lower"), "NOUN", FALSE, FALSE) }

InitCat ==
    /\ pc = <<"determine_category", "call">>
    /\ \E runs \in SeqsUpTo(CatTokens \X {1}, MaxTokens) :
          article = [EmptyArticle EXCEPT !.tokens = runs]
    /\ faults \in {AllOK, FaultAt("category", "[E088] Text exceeds maximum length")}
    /\ DefaultArgs
    /\ Fresh

Call_determine_category ==
    /\ pc = <<"determine_category", "call">>
    /\ \E r \in {determine_category(faults["category"], article.tokens)} :
          IF r.kind = "raise"
          THEN /\ exc' = r.error /\ pc' = <<"determine_category", "raised">>
               /\ UNCHANGED category
          ELSE /\ category' = r.value /\ pc' = <<"determine_category", "returned">>
               /\ UNCHANGED exc
    /\ UNCHANGED <<inputs, elsewhere, summary, people, dates_events, keywords, topics, result>>

SpecCat == InitCat /\ [][Call_determine_category]_vars

-----------------------------------------------------------------------------
(* A call of extract_people by itself *)

PersonName(i, form) == Word(<<"person", i>>, form)

\* n entities naming k persons in rotation; "mixed" makes every third
\* entity an organisation, "cased" spells every second mention in capitals
EntsOf(n, k, pattern) ==
    [i \in 1..n |->
        Ent(IF pattern = "mixed" /\ i % 3 = 0 THEN "ORG" ELSE "PERSON",
            PersonName(((i - 1) % k) + 1,
                       IF pattern = "cased" /\ i % 2 = 0 THEN "UPPER" ELSE "Title"))]

InitPeople ==
    /\ pc = <<"extract_people", "call">>
    /\ \E n \in 0..MaxEnts, k \in 1..MaxEnts, pattern \in {"persons", "mixed", "cased"} :
          /\ k <= n \/ k = 1
          /\ article = [EmptyArticle EXCEPT !.ents = EntsOf(n, k, pattern)]
    /\ faults \in {AllOK, FaultAt("people", "[E088] Text exceeds maximum length")}
    /\ DefaultArgs
    /\ Fresh

Call_extract_people ==
    /\ pc = <<"extract_people", "call">>
    /\ \E r \in {extract_people(faults["people"], article.ents)} :
          IF r.kind = "raise"
          THEN /\ exc' = r.error /\ pc' = <<"extract_people", "raised">>
               /\ UNCHANGED people
          ELSE /\ people' = r.value /\ pc' = <<"extract_people", "returned">>
               /\ UNCHANGED exc
    /\ UNCHANGED <<inputs, elsewhere, summary, dates_events, category, keywords, topics, result>>

SpecPeople == InitPeople /\ [][Call_extract_people]_vars

-----------------------------------------------------------------------------
(* A call of extract_dates_events by itself *)

\* What a sentence is put together from
LongBody == <<"O", "b", "a", "m", "a", " ", "m", "e", "t", " ", "l", "e", "a", "d", "e", "r", "s">>
ShortBody == <<"H", "e", " ", "w", "o", "n">>
DatePhrases ==
    { <<>>,
      <<"t", "o", "d", "a", "y">>,
      <<"T", "o", "d", "a", "y">>,
      <<"T", "O", "D", "A", "Y">>,
      <<"l", "a", "s", "t", " ", "w", "e", "e", "k">>,
      <<"M", "a", "r", "c", "h", " ", "5", ",", " ", "2", "0", "2", "4">>,
      <<"5", " ", "M", "a", "y", " ", "2", "0", "2", "4">>,
      <<"M", "o", "n", "d", "a", "y", ",", " ", "M", "a", "y", " ", "5">> }

\* "<before> <body> <after>." followed by the blank the span ends with
SentenceText(before, body, after) ==
    (IF before = <<>> THEN <<>> ELSE before \o <<" ">>) \o body \o
    (IF after = <<>> THEN <<>> ELSE <<" ">> \o after) \o <<".", " ">>

\* The entities nlp may report in such a sentence: none, or a person and
\* one of the date phrases as a DATE
EntityChoices(before, after) ==
    {<<>>, <<Ent("PERSON", <<"O", "b", "a", "m", "a">>)>>}
    \cup {<<Ent("PERSON", <<"O", "b", "a", "m", "a">>), Ent("DATE", d)>> :
             d \in {before, after} \ {<<>>}}

DateSentences ==
    {Sent(SentenceText(before, body, after), ents, 0) :
        before \in DatePhrases, after \in DatePhrases, body \in {LongBody, ShortBody},
        ents \in {<<>>}} \cup
    UNION {{Sent(SentenceText(before, LongBody, after), ents, 0) :
              ents \in EntityChoices(before, after)} :
          before \in DatePhrases, after \in DatePhrases}

\* Sentences of which longer texts are made
FewSentences ==
    { Sent(SentenceText(<<>>, LongBody, <<"y", "e", "s", "t", "e", "r", "d", "a", "y">>), <<>>, 0),
      Sent(SentenceText(<<"M", "a", "r", "c", "h", " ", "5", ",", " ", "2", "0", "2", "4">>, LongBody, <<>>), <<>>, 0),
      Sent(SentenceText(<<>>, LongBody, <<>>), <<>>, 0) }

InitDates ==
    /\ pc = <<"extract_dates_events", "call">>
    /\ \E sents \in {<<x>> : x \in DateSentences} \cup SeqsUpTo(FewSentences, MaxSents) :
          article = [EmptyArticle EXCEPT !.sents = sents]
    /\ faults \in {AllOK, FaultAt("dates_events", "[E088] Text exceeds maximum length")}
    /\ DefaultArgs
    /\ Fresh

Call_extract_dates_events ==
    /\ pc = <<"extract_dates_events", "call">>
    /\ \E r \in {extract_dates_events(faults["dates_events"], article.sents)} :
          IF r.kind = "raise"
          THEN /\ exc' = r.error /\ pc' = <<"extract_dates_events", "raised">>
               /\ UNCHANGED dates_events
          ELSE /\ dates_events' = r.value /\ pc' = <<"extract_dates_events", "returned">>
               /\ UNCHANGED exc
    /\ UNCHANGED <<inputs, elsewhere, summary, people, category, keywords, topics, result>>

SpecDates == InitDates /\ [][Call_extract_dates_events]_vars

\* A sentence of n characters once stripped: the phrase, words, a full stop
PaddedSentence(n, phrase) ==
    phrase \o <<" ">> \o
    [i \in 1..(n - Len(phrase) - 2) |-> IF i % 6 = 0 THEN " " ELSE "a"] \o <<".">>

\* Sentence spans around the length at which a sentence is left out
LongSentences ==
    {Sent(PaddedSentence(n, phrase) \o <<" ">>, <<>>, 0) :
        n \in {299, 300, 301},
        phrase \in {<<"t", "o", "d", "a", "y">>,
                    <<"M", "a", "r", "c", "h", " ", "5", ",", " ", "2", "0", "2", "4">>}}

\* A text with one such sentence among shorter ones
InitDatesLong ==
    /\ pc = <<"extract_dates_events", "call">>
    /\ \E first \in SeqsUpTo(FewSentences, MaxAround), long \in LongSentences,
          last \in SeqsUpTo(FewSentences, MaxAround) :
          article = [EmptyArticle EXCEPT !.sents = first \o <<long>> \o last]
    /\ faults \in {AllOK, FaultAt("dates_events", "[E088] Text exceeds maximum length")}
    /\ DefaultArgs
    /\ Fresh

SpecDatesAll == (InitDates \/ InitDatesLong) /\ [][Call_extract_dates_events]_vars

-----------------------------------------------------------------------------
(* A call of create_summary by itself *)

\* Sentence spans a text is made of, with the blanks around them
SummarySentences ==
    { Sent(<<"O", "b", "a", "m", "a", " ", "m", "e", "t", " ", "l", "e", "a", "d", "e", "r", "s", ".", " ">>, <<>>, 1),
      Sent(<<" ", "H", "e", " ", "w", "o", "n", ".", "\n">>, <<>>, -1),
      Sent(<<"Y", "e", "s", "!", " ", " ">>, <<>>, 0),
      Sent(<<"I", "t", " ", "r", "a", "i", "n", "e", "d", ".">>, <<>>, 1) }

\* the text whose sentence spans are sents
RECURSIVE TextOf(_)
TextOf(sents) == IF sents = <<>> THEN <<>> ELSE Head(sents).text \o TextOf(Tail(sents))

InitSummary ==
    /\ pc = <<"create_summary", "call">>
    /\ \E sents \in SeqsUpTo(SummarySentences, MaxSents) :
          article = [EmptyArticle EXCEPT !.sents = sents, !.text = TextOf(sents)]
    /\ faults \in {AllOK, FaultAt("summary", "[E088] Text exceeds maximum length")}
    /\ sentences_count \in {2, 5}
    /\ max_keywords = 10 /\ max_topics = 5 /\ hash_order = TopicTerms
    /\ Fresh

Call_create_summary ==
    /\ pc = <<"create_summary", "call">>
    /\ \E r \in create_summary(faults["summary"], article.text, article.sents, sentences_count) :
          IF r.kind = "raise"
          THEN /\ exc' = r.error /\ pc' = <<"create_summary", "raised">>
               /\ UNCHANGED summary
          ELSE /\ summary' = r.value /\ pc' = <<"create_summary", "returned">>
               /\ UNCHANGED exc
    /\ UNCHANGED <<inputs, elsewhere, people, dates_events, category, keywords, topics, result>>

SpecSummary == InitSummary /\ [][Call_create_summary]_vars

-----------------------------------------------------------------------------
(* A call of identify_topics by itself *)

Noun(b) == Tok(Word(b, "lower"), Word(b, "lower"), "NOUN", FALSE, FALSE)

\* A paragraph of n characters, blanks inside and a line break in the middle
ParagraphText(n) ==
    [i \in 1..n |-> IF i = n \div 2 THEN "\n" ELSE IF i % 7 = 4 THEN " " ELSE "a"]

\* Paragraphs a text is made of: the length, and the tokens nlp finds
TopicParagraphs ==
    { [length |-> 120, tokens |-> << <<Noun("market"), 2>>, <<Noun("bank"), 1>>, <<Noun("team"), 1>> >>],
      [length |-> 100, tokens |-> << <<Noun("river"), 1>>, <<Noun("city"), 1>>, <<Noun("storm"), 2>>,
                                     <<Noun("team"), 1>>, <<Noun("election"), 1>>,
                                     <<Tok(Word("bank", "Title"), Word("bank", "Title"), "PROPN", FALSE, FALSE), 1>>,
                                     <<Noun("market"), 1>> >>],
      [length |-> 99, tokens |-> << <<Noun("team"), 1>>, <<Noun("city"), 1>> >>],
      [length |-> 130, tokens |-> << <<Noun("storm"), 1>>,
                                     <<Tok(Word("city", "lower"), Word("city", "lower"), "NOUN", TRUE, FALSE), 1>>,
                                     <<Tok(Word("ai", "UPPER"), Word("ai", "UPPER"), "PROPN", FALSE, FALSE), 1>>,
                                     <<Tok(Word("river", "lower"), Word("river", "lower"), "VERB", FALSE, FALSE), 1>> >>],
      [length |-> 110, tokens |-> << <<Noun("storm"), 2>> >>],
      [length |-> 105, tokens |-> << <<Noun("team"), 1>>, <<Noun("election"), 1>>, <<Noun("river"), 1>> >>] }

\* the paragraphs, each with a blank before it, joined by the separator
RECURSIVE JoinParagraphs(_, _)
JoinParagraphs(ps, sep) ==
    IF ps = <<>> THEN <<>>
    ELSE <<" ">> \o ParagraphText(Head(ps).length) \o
         (IF Len(ps) = 1 THEN <<>> ELSE sep \o JoinParagraphs(Tail(ps), sep))

ParagraphSeparators == {<<"\n", "\n">>, <<"\n", "\n", "\n", "\n", " ", "\n", "\n">>}

InitTopics ==
    /\ pc = <<"identify_topics", "call">>
    /\ \E ps \in SeqsUpTo(TopicParagraphs, MaxParas), sep \in ParagraphSeparators :
          article = [EmptyArticle EXCEPT !.text = JoinParagraphs(ps, sep),
                                         !.paras = [i \in 1..Len(ps) |-> ps[i].tokens]]
    /\ faults \in {AllOK, FaultAt("topics", "[E088] Text exceeds maximum length")}
    /\ hash_order \in {TopicTerms, [i \in 1..Len(TopicTerms) |-> TopicTerms[Len(TopicTerms) + 1 - i]]}
    /\ max_topics \in 0..MaxTopicsArg
    /\ max_keywords = 10 /\ sentences_count = 5
    /\ Fresh

Call_identify_topics ==
    /\ pc = <<"identify_topics", "call">>
    /\ \E r \in {identify_topics(faults["topics"], article.text, article.paras, hash_order, max_topics)} :
          IF r.kind = "raise"
          THEN /\ exc' = r.error /\ pc' = <<"identify_topics", "raised">>
               /\ UNCHANGED topics
          ELSE /\ topics' = r.value /\ pc' = <<"identify_topics", "returned">>
               /\ UNCHANGED exc
    /\ UNCHANGED <<inputs, elsewhere, summary, people, dates_events, category, keywords, result>>

SpecTopics == InitTopics /\ [][Call_identify_topics]_vars

-----------------------------------------------------------------------------
(* A call of any one of the four extractors whose output is cut to a size *)

InitBounds == InitKw \/ InitPeople \/ InitDates \/ InitTopics

NextBounds ==
    \/ Call_extract_keywords
    \/ Call_extract_people
    \/ Call_extract_dates_events
    \/ Call_identify_topics

SpecBounds == InitBounds /\ [][NextBounds]_vars

-----------------------------------------------------------------------------
(* process_article *)

\* Articles given to process_article.  NewsArticle has eight sentences in
\* two paragraphs, the first over 100 characters long.
NewsSentences ==
   << Sent(<<"O", "b", "a", "m", "a", " ", "m", "e", "t", " ", "l", "e", "a", "d",
                "e", "r", "s", " ", "t", "o", "d", "a", "y", ".", " ">>,
           <<Ent("PERSON", <<"O", "b", "a", "m", "a">>)>>, 1),
      Sent(<<"T", "h", "e", " ", "m", "a", "r", "k", "e", "t", " ", "f", "e", "l",
                "l", " ", "o", "n", " ", "M", "a", "r", "c", "h", " ", "5", ",", " ",
                "2", "0", "2", "4", ".", " ">>,
           <<Ent("DATE", <<"M", "a", "r", "c", "h", " ", "5", ",", " ", "2", "0", "2", "4">>)>>, 1),
      Sent(<<"M", "e", "r", "k", "e", "l", " ", "s", "a", "i", "d", " ", "t", "h",
                "e", " ", "e", "l", "e", "c", "t", "i", "o", "n", " ", "i", "s", " ",
                "n", "e", "a", "r", ".", " ">>,
           <<Ent("PERSON", <<"M", "e", "r", "k", "e", "l">>)>>, -1),
      Sent(<<"B", "a", "n", "k", "s", " ", "r", "e", "a", "c", "t", "e", "d", " ",
                "y", "e", "s", "t", "e", "r", "d", "a", "y", ".", " ">>,
           <<>>, 1),
      Sent(<<"H", "e", " ", "w", "o", "n", ".", "\n", "\n">>,
           <<>>, 0),
      Sent(<<"T", "h", "e", " ", "t", "e", "a", "m", " ", "l", "o", "s", "t", " ",
                "l", "a", "s", "t", " ", "w", "e", "e", "k", ".", " ">>,
           <<Ent("DATE", <<"l", "a", "s", "t", " ", "w", "e", "e", "k">>)>>, 1),
      Sent(<<"M", "a", "r", "k", "e", "t", "s", " ", "f", "e", "l", "l", ".", " ">>,
           <<>>, -1),
      Sent(<<" ", "O", "b", "a", "m", "a", " ", "l", "e", "f", "t", ".">>,
           <<Ent("PERSON", <<"O", "b", "a", "m", "a">>)>>, 1) >>

NewsTokens ==
    << <<Tok(Word("obama", "Title"), Word("obama", "Title"), "PROPN", FALSE, FALSE), 2>>,
       <<Tok(Word("market", "lower"), Word("market", "lower"), "NOUN", FALSE, FALSE), 1>>,
       <<Tok(Word("fell", "lower"), Word("fall", "lower"), "VERB", FALSE, FALSE), 2>>,
       <<Tok(Word("the", "lower"), Word("the", "lower"), "DET", TRUE, FALSE), 3>>,
       <<Tok(Word("election", "lower"), Word("election", "lower"), "NOUN", FALSE, FALSE), 1>>,
       <<Tok(Word("markets", "Title"), Word("market", "lower"), "NOUN", FALSE, FALSE), 1>>,
       <<Tok(Word("team", "lower"), Word("team", "lower"), "NOUN", FALSE, FALSE), 1>>,
       <<Tok(Word(".", "lower"), Word(".", "lower"), "PUNCT", FALSE, TRUE), 8>> >>

NewsArticle ==
    [text |-> TextOf(NewsSentences),
     sents |-> NewsSentences,
     ents |-> << Ent("PERSON", <<"O", "b", "a", "m", "a">>), Ent("DATE", <<"M", "a", "r", "c", "h", " ", "5", ",", " ", "2", "0", "2", "4">>), Ent("PERSON", <<"M", "e", "r", "k", "e", "l">>),
                 Ent("DATE", <<"l", "a", "s", "t", " ", "w", "e", "e", "k">>), Ent("PERSON", <<"O", "b", "a", "m", "a">>) >>,
     tokens |-> NewsTokens,
     paras |-> << << <<Noun("market"), 1>>, <<Noun("election"), 1>>, <<Noun("bank"), 1>> >>,
                  << <<Noun("team"), 1>>, <<Noun("market"), 1>> >> >>]

NoteSentences ==
    << Sent(<<"B", "a", "r", "a", "c", "k", " ", "O", "b", "a", "m", "a", " ", "m",
             "e", "t", " ", "w", "i", "t", "h", " ", "l", "e", "a", "d", "e", "r",
             "s", " ", "t", "o", "d", "a", "y", ".">>,
            <<Ent("PERSON", <<"B", "a", "r", "a", "c", "k", " ", "O", "b", "a", "m", "a">>)>>, 1) >>

NoteArticle ==
    [text |-> TextOf(NoteSentences),
     sents |-> NoteSentences,
     ents |-> <<Ent("PERSON", <<"B", "a", "r", "a", "c", "k", " ", "O", "b", "a", "m", "a">>)>>,
     tokens |-> << <<Tok(Word("leaders", "lower"), Word("leader", "lower"), "NOUN", FALSE, FALSE), 1>> >>,
     paras |-> << << <<Noun("leader"), 1>> >> >>]

Articles == {EmptyArticle, NoteArticle, NewsArticle}

Init ==
    /\ pc = <<"process_article", "summary">>
    /\ article \in Articles
    /\ faults \in [Stages -> {NoError} \cup ErrorMessages]
    /\ DefaultArgs
    /\ Fresh

\* line 80: summary = create_summary(article_text)
PA_summary ==
    /\ pc = <<"process_article", "summary">>
    /\ \E r \in create_summary(faults["summary"], article.text, article.sents, 5) :
          IF r.kind = "raise"
          THEN /\ exc' = r.error /\ pc' = <<"process_article", "except">>
               /\ UNCHANGED summary
          ELSE /\ summary' = r.value /\ pc' = <<"process_article", "people">>
               /\ UNCHANGED exc
    /\ UNCHANGED <<inputs, elsewhere, people, dates_events, category, keywords, topics, result>>

\* line 83: people = extract_people(article_text)
PA_people ==
    /\ pc = <<"process_article", "people">>
    /\ \E r \in {extract_people(faults["people"], article.ents)} :
          IF r.kind = "raise"
          THEN /\ exc' = r.error /\ pc' = <<"process_article", "except">>
               /\ UNCHANGED people
          ELSE /\ people' = r.value /\ pc' = <<"process_article", "dates_events">>
               /\ UNCHANGED exc
    /\ UNCHANGED <<inputs, elsewhere, summary, dates_events, category, keywords, topics, result>>

\* line 86: dates_events = extract_dates_events(article_text)
PA_dates_events ==
    /\ pc = <<"process_article", "dates_events">>
    /\ \E r \in {extract_dates_events(faults["dates_events"], article.sents)} :
          IF r.kind = "raise"
          THEN /\ exc' = r.error /\ pc' = <<"process_article", "except">>
               /\ UNCHANGED dates_events
          ELSE /\ dates_events' = r.value /\ pc' = <<"process_article", "category">>
               /\ UNCHANGED exc
    /\ UNCHANGED <<inputs, elsewhere, summary, people, category, keywords, topics, result>>

\* line 89: category = determine_category(article_text)
PA_category ==
    /\ pc = <<"process_article", "category">>
    /\ \E r \in {determine_category(faults["category"], article.tokens)} :
          IF r.kind = "raise"
          THEN /\ exc' = r.error /\ pc' = <<"process_article", "except">>
               /\ UNCHANGED category
          ELSE /\ category' = r.value /\ pc' = <<"process_article", "keywords">>
               /\ UNCHANGED exc
    /\ UNCHANGED <<inputs, elsewhere, summary, people, dates_events, keywords, topics, result>>

\* line 92: keywords = extract_keywords(article_text)
PA_keywords ==
    /\ pc = <<"process_article", "keywords">>
    /\ \E r \in {extract_keywords(faults["keywords"], article.tokens, 10)} :
          IF r.kind = "raise"
          THEN /\ exc' = r.error /\ pc' = <<"process_article", "except">>
               /\ UNCHANGED keywords
          ELSE /\ keywords' = r.value /\ pc' = <<"process_article", "topics">>
               /\ UNCHANGED exc
    /\ UNCHANGED <<inputs, elsewhere, summary, people, dates_events, category, topics, result>>

\* line 95: topics = identify_topics(article_text)
PA_topics ==
    /\ pc = <<"process_article", "topics">>
    /\ \E r \in {identify_topics(faults["topics"], article.text, article.paras, hash_order, 5)} :
          IF r.kind = "raise"
          THEN /\ exc' = r.error /\ pc' = <<"process_article", "except">>
               /\ UNCHANGED topics
          ELSE /\ topics' = r.value /\ pc' = <<"process_article", "return">>
               /\ UNCHANGED exc
    /\ UNCHANGED <<inputs, elsewhere, summary, people, dates_events, category, keywords, result>>

\* lines 97-105
PA_return ==
    /\ pc = <<"process_article", "return">>
    /\ result' = [success |-> TRUE, summary |-> summary, people |-> people,
                  dates_events |-> dates_events, category |-> category,
                  keywords |-> keywords, topics |-> topics]
    /\ pc' = <<"process_article", "done">>
    /\ UNCHANGED <<inputs, elsewhere, summary, people, dates_events, category, keywords, topics, exc>>

\* (mutant) the handler passes the exception on
PA_except_reraises ==
    /\ pc = <<"process_article", "except">>
    /\ pc' = <<"process_article", "raised">>
    /\ UNCHANGED <<inputs, elsewhere, summary, people, dates_events, category, keywords, topics, exc, result>>

\* (mutant) the handler reports the summary made before the failure
PA_except_partial ==
    /\ pc = <<"process_article", "except">>
    /\ result' = IF faults["summary"] = NoError
                 THEN [success |-> FALSE, error |-> exc, summary |-> summary]
                 ELSE [success |-> FALSE, error |-> exc]
    /\ exc' = NoError
    /\ pc' = <<"process_article", "done">>
    /\ UNCHANGED <<inputs, elsewhere, summary, people, dates_events, category, keywords, topics>>

\* lines 106-110: except Exception as e: return {success: False, error: str(e)}
PA_except ==
    /\ pc = <<"process_article", "except">>
    /\ result' = [success |-> FALSE, error |-> exc]
    /\ exc' = NoError
    /\ pc' = <<"process_article", "done">>
    /\ UNCHANGED <<inputs, elsewhere, summary, people, dates_events, category, keywords, topics>>

Next ==
    \/ PA_summary \/ PA_people \/ PA_dates_events \/ PA_category
    \/ PA_keywords \/ PA_topics \/ PA_return \/ PA_except

Spec == Init /\ [][Next]_vars

-----------------------------------------------------------------------------
(* process_article called a second time on the same text, in the same      *)
(* interpreter process or in one started anew                              *)

\* The orders in which a process may iterate over a set of terms: the hash
\* of a string is seeded anew in each process
HashOrders == {TopicTerms, [i \in 1..Len(TopicTerms) |-> TopicTerms[Len(TopicTerms) + 1 - i]]}

InitTwice ==
    /\ pc = <<"process_article", "summary">>
    /\ article \in Articles
    /\ faults \in {AllOK} \cup {FaultAt(s, "[E088] Text exceeds maximum length") : s \in Stages}
    /\ hash_order \in HashOrders
    /\ max_keywords = 10 /\ max_topics = 5 /\ sentences_count = 5
    /\ Fresh

\* np.argsort is a function of the scores: on the same text the second call
\* selects the sentences the first one selected
SameSelection ==
    (Len(earlier) = 1 /\ earlier[1].result.success) => summary' = earlier[1].result.summary

\* the caller keeps the result and calls process_article again
CallAgain ==
    /\ pc = <<"process_article", "done">>
    /\ earlier = <<>>
    /\ earlier' = <<[result |-> result, hash_order |-> hash_order]>>
    /\ summary' = None /\ people' = None /\ dates_events' = None
    /\ category' = None /\ keywords' = None /\ topics' = None
    /\ result' = None
    /\ pc' = <<"process_article", "summary">>

\* the second call is made in the same process
Again == CallAgain /\ UNCHANGED <<inputs, translator, calls, page, document, exc>>

\* the second call is made after the program was started anew
Restart ==
    /\ CallAgain
    /\ hash_order' \in HashOrders
    /\ UNCHANGED <<article, faults, max_keywords, max_topics, sentences_count, translator, calls, page, document, exc>>

NextTwice ==
    \/ PA_summary /\ SameSelection
    \/ PA_people \/ PA_dates_events \/ PA_category
    \/ PA_keywords \/ PA_topics \/ PA_return \/ PA_except
    \/ Again
    \/ Restart

SpecTwice == InitTwice /\ [][NextTwice]_vars

-----------------------------------------------------------------------------
(* app.py: the button "Summarize Article" *)

AlnumChars == Range(LowerChars) \cup DigitChars

\* [A-Z0-9](?:[A-Z0-9-]{0,61}[A-Z0-9])?\.
LabelDot(s, P) ==
    LET first == Repeat(s, P, AlnumChars, 1, 1)
        longer == Repeat(s, Repeat(s, first, AlnumChars \cup {"-"}, 0, 61), AlnumChars, 1, 1)
    IN OneOf(s, first \cup longer, {<<".">>})

\* (?:label\.)+
RECURSIVE Labels(_, _, _)
Labels(s, P, acc) ==
    LET new == LabelDot(s, P) \ acc
    IN IF new = {} THEN acc ELSE Labels(s, new, acc \cup new)

\* (?:label\.)+[A-Z]{2,6}\.?
DomainName(s, P) ==
    LET tld == Repeat(s, Labels(s, P, {}), Range(LowerChars), 2, 6)
    IN tld \cup OneOf(s, tld, {<<".">>})

\* \d{1,3}\.\d{1,3}\.\d{1,3}\.\d{1,3}
DottedQuad(s, P) ==
    LET Part(Q) == Digits(s, OneOf(s, Q, {<<".">>}), 1, 3)
    IN Part(Part(Part(Digits(s, P, 1, 3))))

\* url_pattern.match(url), the pattern compiled with re.IGNORECASE
is_valid_url(u) ==
    LET s == str_lower(u)
        scheme == OneOf(s, {1}, {<<"h", "t", "t", "p", ":", "/", "/">>,
                                 <<"h", "t", "t", "p", "s", ":", "/", "/">>})
        host == DomainName(s, scheme)
                  \cup OneOf(s, scheme, {<<"l", "o", "c", "a", "l", "h", "o", "s", "t">>})
                  \cup DottedQuad(s, scheme)
        port == host \cup Digits(s, OneOf(s, host, {<<":">>}), 1, Len(s))
        path == port \cup OneOf(s, port, {<<"/">>})
                  \cup Repeat(s, OneOf(s, port, {<<"/">>, <<"?">>}), Range(s) \ Whitespace, 1, Len(s))
        \* $ is the end of the string or the place before a last newline
        ends == {Len(s) + 1} \cup (IF Len(s) > 0 /\ s[Len(s)] = "\n" THEN {Len(s)} ELSE {})
    IN path \cap ends # {}

\* What is typed into the URL input
Urls ==
    { <<>>,
      <<"e", "x", "a", "m", "p", "l", "e", ".", "c", "o", "m">>,
      <<"h", "t", "t", "p", ":", "/", "/", "l", "o", "c", "a", "l", "h", "o", "s", "t">>,
      <<"h", "t", "t", "p", "s", ":", "/", "/", "b", "b", "c", ".", "c", "o", ".", "u", "k", "/", "n", "e", "w", "s">>,
      <<"H", "T", "T", "P", ":", "/", "/", "A", ".", "I", "O">>,
      <<"f", "t", "p", ":", "/", "/", "a", ".", "i", "o", "/", "x">>,
      <<"h", "t", "t", "p", ":", "/", "/", "a", ".", "i", "o", "/", "x", " ", "y">>,
      <<"h", "t", "t", "p", ":", "/", "/", "1", ".", "2", ".", "3", ".", "4", ":", "8", "0", "/">>,
      <<"h", "t", "t", "p", ":", "/", "/", "a">>,
      <<"h", "t", "t", "p", ":", "/", "/", "-", "a", ".", "i", "o", "/">>,
      <<"h", "t", "t", "p", "s", ":", "/", "/", "a", ".", "i", "o", "?", "q", "=", "1">> }

\* d.get(key, default)
GetOr(d, key, default) == IF key \in DOMAIN d THEN d[key] ELSE default

\* Languages of AVAILABLE_LANGUAGES
Languages == {"English", "Spanish", "Hindi"}

\* utils/article_extractor.py, lines 4-32: what extract_article_with_newspaper
\* returns for a URL, the dict of the parsed page or that of the exception
NewspaperOutcomes(u) ==
    {[success |-> TRUE, title |-> "Leaders meet", text |-> a, authors |-> <<"A. Writer">>,
      publish_date |-> "2024-03-05", top_image |-> "", url |-> u] : a \in Articles}
      \cup {[success |-> FALSE, error |-> "Article download failed with 404"]}

\* lines 34-63: what extract_article_with_trafilatura returns for a URL
TrafilaturaOutcomes(u) ==
    {[success |-> TRUE, text |-> a, url |-> u] : a \in Articles \ {EmptyArticle}}
      \cup {[success |-> FALSE, error |-> e] :
               e \in {"Could not extract content from the URL", "Read timed out"}}

\* dict.get("text") is truthy
HasText(d) == "text" \in DOMAIN d /\ d.text # EmptyArticle

\* (mutant) the fallback is consulted whatever newspaper3k returned
Consults_always(newspaper_result) == TRUE

\* line 79: not result["success"] or not result.get("text")
Consults(newspaper_result) == ~newspaper_result.success \/ ~HasText(newspaper_result)

\* (mutant) when both fail the dict of the fallback is returned
extract_article_fallback_error(newspaper_result, trafilatura_result) ==
    IF Consults(newspaper_result)
    THEN IF trafilatura_result.success
         THEN IF "title" \in DOMAIN newspaper_result
              THEN [newspaper_result EXCEPT !.text = trafilatura_result.text,
                                            !.success = TRUE]
              ELSE trafilatura_result
         ELSE trafilatura_result
    ELSE newspaper_result

\* extract_article(url): newspaper3k first, trafilatura when it fails or
\* finds no text
extract_article(newspaper_result, trafilatura_result) ==
    IF Consults(newspaper_result)
    THEN IF trafilatura_result.success
         THEN IF "title" \in DOMAIN newspaper_result
              THEN [newspaper_result EXCEPT !.text = trafilatura_result.text,
                                            !.success = TRUE]
              ELSE trafilatura_result
         ELSE newspaper_result
    ELSE newspaper_result

\* a call and what it returned
Called(callee, returned) == <<callee, returned>>

\* the calls extract_article makes
ExtractorCalls(newspaper_result, trafilatura_result) ==
    <<Called("extract_article_with_newspaper", newspaper_result)>> \o
    (IF Consults(newspaper_result)
     THEN <<Called("extract_article_with_trafilatura", trafilatura_result)>>
     ELSE <<>>)

Error(message) == [kind |-> "error", text |-> message]
\* st.error(f"{message}: {d.get('error', 'Unknown error')}")
Failure(message, d) == [kind |-> "error", text |-> message, error |-> GetOr(d, "error", "Unknown error")]
Tips == [kind |-> "markdown", text |-> "Tips"]
ArticleInfo == [kind |-> "display_article_info", text |-> ""]

InitApp ==
    /\ pc = <<"main", "button">>
    /\ url \in Urls
    /\ article_data = NoData /\ screen = <<>>
    /\ article = EmptyArticle
    /\ faults \in {AllOK} \cup {FaultAt(s, "[E002] Can't find factory") : s \in {"summary", "topics"}}
    /\ DefaultArgs
    /\ summary = None /\ people = None /\ dates_events = None
    /\ category = None /\ keywords = None /\ topics = None
    /\ exc = NoError /\ result = None
    /\ heap = <<>> /\ nlp_result = 0 /\ translated_result = 0
    /\ target_language \in Languages
    /\ service_calls = 0
    /\ source_text = None /\ translated_text = None
    /\ calls = <<>>
    /\ earlier = <<>>
    /\ document = <<>>

\* lines 184-188: the button is pressed
Main_button ==
    /\ pc = <<"main", "button">>
    /\ IF url = <<>>
       THEN screen' = Append(screen, Error("Please enter a URL")) /\ pc' = <<"main", "end">>
       ELSE IF ~is_valid_url(url)
       THEN screen' = Append(screen, Error("Please enter a valid URL")) /\ pc' = <<"main", "end">>
       ELSE UNCHANGED screen /\ pc' = <<"main", "extract_article">>
    /\ UNCHANGED <<inputs, translator, calls, earlier, document, url, article_data,
                   summary, people, dates_events, category, keywords, topics, exc, result>>

\* line 192: article_data = extract_article(url)
Main_extract_article ==
    /\ pc = <<"main", "extract_article">>
    /\ \E n \in NewspaperOutcomes(url), t \in TrafilaturaOutcomes(url) :
          /\ article_data' = extract_article(n, t)
          /\ calls' = calls \o ExtractorCalls(n, t)
    /\ pc' = <<"main", "article_data">>
    /\ UNCHANGED <<inputs, translator, earlier, document, url, screen,
                   summary, people, dates_events, category, keywords, topics, exc, result>>

\* (mutant) the text is not looked at before it is analysed
Main_article_data_unchecked ==
    /\ pc = <<"main", "article_data">>
    /\ IF ~article_data.success
       THEN /\ screen' = screen \o <<Failure("Failed to extract article", article_data), Tips>>
            /\ pc' = <<"main", "end">>
            /\ UNCHANGED article
       ELSE /\ article' = article_data.text
            /\ pc' = <<"process_article", "summary">>
            /\ UNCHANGED screen
    /\ UNCHANGED <<faults, hash_order, max_keywords, max_topics, sentences_count,
                   translator, calls, earlier, document, url, article_data,
                   summary, people, dates_events, category, keywords, topics, exc, result>>

\* lines 194-209: the extraction is looked at and process_article called
Main_article_data ==
    /\ pc = <<"main", "article_data">>
    /\ IF ~article_data.success
       THEN /\ screen' = screen \o <<Failure("Failed to extract article", article_data), Tips>>
            /\ pc' = <<"main", "end">>
            /\ UNCHANGED article
       ELSE IF ~HasText(article_data)
       THEN /\ screen' = Append(screen,
                           Error("The article was found but no content could be extracted"))
            /\ pc' = <<"main", "end">>
            /\ UNCHANGED article
       ELSE /\ article' = article_data.text
            /\ pc' = <<"process_article", "summary">>
            /\ UNCHANGED screen
    /\ UNCHANGED <<faults, hash_order, max_keywords, max_topics, sentences_count,
                   translator, calls, earlier, document, url, article_data,
                   summary, people, dates_events, category, keywords, topics, exc, result>>

\* (mutant) a failed result is translated and displayed after its error
Main_nlp_result_displays_failure ==
    /\ pc = <<"process_article", "done">>
    /\ screen' = screen \o (IF ~result.success
                            THEN <<Failure("Failed to analyze article", result)>>
                            ELSE <<>>) \o <<ArticleInfo>>
    /\ calls' = calls \o (IF target_language # "English"
                          THEN <<Called("translate_nlp_result", "translated_result")>>
                          ELSE <<>>)
                      \o <<Called("display_article_info", target_language)>>
    /\ pc' = <<"main", "end">>
    /\ UNCHANGED <<inputs, translator, earlier, document, url, article_data,
                   summary, people, dates_events, category, keywords, topics, exc, result>>

\* lines 211-223: process_article has returned; its error is shown, or the
\* result, translated when another language than English is selected, is
\* given to display_article_info
Main_nlp_result ==
    /\ pc = <<"process_article", "done">>
    /\ IF ~result.success
       THEN /\ screen' = Append(screen, Failure("Failed to analyze article", result))
            /\ UNCHANGED calls
       ELSE /\ calls' = calls \o (IF target_language # "English"
                                 THEN <<Called("translate_nlp_result", "translated_result")>>
                                 ELSE <<>>)
                             \o <<Called("display_article_info", target_language)>>
            /\ screen' = Append(screen, ArticleInfo)
    /\ pc' = <<"main", "end">>
    /\ UNCHANGED <<inputs, translator, earlier, document, url, article_data,
                   summary, people, dates_events, category, keywords, topics, exc, result>>

NextApp ==
    \/ Main_button \/ Main_extract_article \/ Main_article_data
    \/ PA_summary \/ PA_people \/ PA_dates_events \/ PA_category
    \/ PA_keywords \/ PA_topics \/ PA_return \/ PA_except
    \/ Main_nlp_result

SpecApp == InitApp /\ [][NextApp]_vars

-----------------------------------------------------------------------------
(* The renderers of a result: SummaryExporter.to_markdown and to_pdf of     *)
(* utils/export_utils.py, display_article_info of app.py                    *)

\* d.get(key) and len(d[key]) > 0, for a list
Filled(d, key) == key \in DOMAIN d /\ d[key] # <<>>

\* d.get(key), for a str
FilledText(d, key) == key \in DOMAIN d /\ d[key] # ""

RECURSIVE Concat(_)
Concat(lists) == IF lists = <<>> THEN <<>> ELSE Head(lists) \o Concat(Tail(lists))

When(cond, lines) == IF cond THEN lines ELSE <<>>

\* a line of Markdown, a cell of the PDF, a call of a streamlit function
Line(kind, text) == [kind |-> kind, text |-> text]

\* ", ".join(terms)
RECURSIVE JoinTerms(_)
JoinTerms(terms) ==
    IF Len(terms) = 0 THEN <<>>
    ELSE IF Len(terms) = 1 THEN <<terms[1]>>
    ELSE <<terms[1], ", ">> \o JoinTerms(Tail(terms))

\* int(keyword["relevance"] * 100)
Percent(keyword) ==
    CASE keyword.relevance = "1.0" -> "100"
      [] keyword.relevance = "0.5" -> "50"

\* lines 20-97
to_markdown(data, r) ==
    LET category_ == GetOr(r, "category", "Uncategorized")
        title == GetOr(data, "title", "Article Summary")
        source == GetOr(data, "url", "")
        text == GetOr(r, "summary", "Summary not available")
        KeywordLine(k) == Line("item", <<"- **", k.text, "** (", Percent(k), "%)">>)
        TopicLines(t) ==
            <<Line("h3", <<t.name>>)>>
              \o When(Filled(t, "keywords"),
                      <<Line("text", <<"Related terms: ">> \o JoinTerms(t.keywords))>>)
              \o <<Line("text", <<>>)>>
        PersonLine(p) == Line("item", <<"- ", p>>)
        DateLine(e) == Line("item", <<"- **", GetOr(e, "date", "Date not specified"), "**: ",
                                      GetOr(e, "event", "")>>)
    IN Return(
         << Line("h1", <<title>>),
            Line("text", <<"**Category:** ", category_>>),
            Line("text", <<"**Source:** ", source>>),
            Line("text", <<>>) >>
         \o When(FilledText(data, "publish_date"),
                 <<Line("text", <<"**Published:** ", GetOr(data, "publish_date", "")>>), Line("text", <<>>)>>)
         \o When(Filled(data, "authors"),
                 <<Line("text", <<"**Authors:** ">> \o JoinTerms(GetOr(data, "authors", <<>>))), Line("text", <<>>)>>)
         \o << Line("h2", <<"Summary">>), Line("text", <<text>>), Line("text", <<>>) >>
         \o When(Filled(r, "keywords"),
                 <<Line("h2", <<"Keywords">>)>>
                   \o [i \in 1..Len(GetOr(r, "keywords", <<>>)) |-> KeywordLine(r.keywords[i])]
                   \o <<Line("text", <<>>)>>)
         \o When(Filled(r, "topics"),
                 <<Line("h2", <<"Main Topics">>)>>
                   \o Concat([i \in 1..Len(GetOr(r, "topics", <<>>)) |-> TopicLines(r.topics[i])]))
         \o When(Filled(r, "people"),
                 <<Line("h2", <<"Key People Mentioned">>)>>
                   \o [i \in 1..Len(GetOr(r, "people", <<>>)) |-> PersonLine(r.people[i])]
                   \o <<Line("text", <<>>)>>)
         \o When(Filled(r, "dates_events"),
                 <<Line("h2", <<"Important Dates & Events">>)>>
                   \o [i \in 1..Len(GetOr(r, "dates_events", <<>>)) |-> DateLine(r.dates_events[i])]
                   \o <<Line("text", <<>>)>>)
         \o << Line("text", <<"---">>), Line("text", <<"*Generated on ", "now", " by News Summarizer*">>) >>)

\* The bullet character the items start with, code point 8226
Bullet == "U+2022"

\* The text of a core font of FPDF (Arial) is encoded in latin-1, which has
\* the code points up to 255: of the characters written here all but the bullet
Latin1(text) == \A i \in 1..Len(text) : text[i] # Bullet

\* pdf.cell / pdf.multi_cell in a core font, and pdf.output: a text that
\* latin-1 cannot encode raises
Encoded(cells) ==
    IF \A i \in 1..Len(cells) : Latin1(cells[i].text)
    THEN Return(cells)
    ELSE Raise("UnicodeEncodeError")

\* (mutant) the items are written with a hyphen
PdfItem_hyphen(parts) == Line("cell", <<"- ">> \o parts)

\* an item: a bullet, a space, the text
PdfItem(parts) == Line("cell", <<Bullet, " ">> \o parts)

\* lines 100-218
to_pdf(data, r) ==
    LET category_ == GetOr(r, "category", "Uncategorized")
        title == GetOr(data, "title", "Article Summary")
        source == GetOr(data, "url", "")
        text == GetOr(r, "summary", "Summary not available")
        KeywordCell(k) == PdfItem(<<k.text, " (", Percent(k), "%)">>)
        TopicCells(t) ==
            <<Line("cell", <<t.name>>)>>
              \o When(Filled(t, "keywords"),
                      <<Line("multi_cell", <<"Related terms: ">> \o JoinTerms(t.keywords))>>)
        PersonCell(p) == PdfItem(<<p>>)
        DateCells(e) == << Line("cell", <<GetOr(e, "date", "Date not specified"), ":">>),
                           Line("multi_cell", <<GetOr(e, "event", "")>>) >>
    IN Encoded(
         << Line("cell", <<title>>),
            Line("cell", <<"Category: ", category_>>) >>
         \o When(source # "", <<Line("cell", <<"Source: ", source>>)>>)
         \o When(FilledText(data, "publish_date"),
                 <<Line("cell", <<"Published: ", GetOr(data, "publish_date", "")>>)>>)
         \o When(Filled(data, "authors"),
                 <<Line("cell", <<"Authors: ">> \o JoinTerms(GetOr(data, "authors", <<>>)))>>)
         \o << Line("h2", <<"Summary">>), Line("multi_cell", <<text>>) >>
         \o When(Filled(r, "keywords"),
                 <<Line("h2", <<"Keywords">>)>>
                   \o [i \in 1..Len(GetOr(r, "keywords", <<>>)) |-> KeywordCell(r.keywords[i])])
         \o When(Filled(r, "topics"),
                 <<Line("h2", <<"Main Topics">>)>>
                   \o Concat([i \in 1..Len(GetOr(r, "topics", <<>>)) |-> TopicCells(r.topics[i])]))
         \o When(Filled(r, "people"),
                 <<Line("h2", <<"Key People Mentioned">>)>>
                   \o [i \in 1..Len(GetOr(r, "people", <<>>)) |-> PersonCell(r.people[i])])
         \o When(Filled(r, "dates_events"),
                 <<Line("h2", <<"Important Dates & Events">>)>>
                   \o Concat([i \in 1..Len(GetOr(r, "dates_events", <<>>)) |-> DateCells(r.dates_events[i])]))
         \o << Line("cell", <<"Generated on ", "now", " by News Summarizer">>) >>)

\* a section header of the page: the English text, or what translate_text
\* made of it
Header(text, language) ==
    IF language = "English" THEN <<text>> ELSE <<text, " in ", language>>

\* app.py lines 55-151, with NewsBotMascot.render
display_article_info(data, r, show_mascot, language) ==
    LET category_ == GetOr(r, "category", "Uncategorized")
        KeywordCalls(k) == << Line("write", <<"**", k.text, "** (", Percent(k), "%)">>),
                              Line("progress", <<k.relevance>>) >>
        TopicCalls(t) ==
            <<Line("expander", <<t.name>>)>>
              \o When(Filled(t, "keywords"),
                      <<Line("write", Header("Related terms", language) \o <<": ">>
                                        \o JoinTerms(t.keywords))>>)
        PersonCall(p) == Line("markdown", <<Bullet, " ", p>>)
        DateCall(e) == Line("markdown", <<Bullet, " **", GetOr(e, "date", "Date not specified"),
                                          "**: ", GetOr(e, "event", "")>>)
        top_keywords == IF Filled(r, "keywords") THEN Take(r.keywords, 3) ELSE <<>>
        Mascot ==
            << Line("mascot", <<category_>>),
               Line("mascot", <<"Article Stats">>) >>
              \o When(top_keywords # <<>>,
                      <<Line("mascot", <<"Keywords: ">>
                          \o JoinTerms([i \in 1..Len(top_keywords) |-> top_keywords[i].text]))>>)
              \o << Line("mascot", <<"People & Events">>) >>
    IN << Line("header", <<GetOr(data, "title", "Article Summary")>>),
          Line("info", <<"Category: ", category_>>),
          Line("markdown", <<"[Read Original Article](", GetOr(data, "url", "#"), ")">>),
          Line("h2", Header("Summary", language)),
          Line("write", <<GetOr(r, "summary", "Summary not available")>>) >>
       \o When(show_mascot, Mascot)
       \o When(Filled(r, "keywords"),
               <<Line("h2", Header("Keywords", language))>>
                 \o Concat([i \in 1..Len(GetOr(r, "keywords", <<>>)) |-> KeywordCalls(r.keywords[i])]))
       \o When(Filled(r, "topics"),
               <<Line("h2", Header("Main Topics", language))>>
                 \o Concat([i \in 1..Len(GetOr(r, "topics", <<>>)) |-> TopicCalls(r.topics[i])]))
       \o When(Filled(r, "people"),
               <<Line("h2", Header("Key People Mentioned", language))>>
                 \o [i \in 1..Len(GetOr(r, "people", <<>>)) |-> PersonCall(r.people[i])])
       \o When(Filled(r, "dates_events"),
               <<Line("h2", Header("Important Dates & Events", language))>>
                 \o [i \in 1..Len(GetOr(r, "dates_events", <<>>)) |-> DateCall(r.dates_events[i])])
       \o When(Filled(data, "authors") \/ FilledText(data, "publish_date"),
               <<Line("caption", <<"metadata">>)>>)

ResultFields == {"summary", "category", "keywords", "topics", "people", "dates_events"}

\* The fields of a result and, for each, a value that is empty and one
\* that is not
Filling(f) ==
    CASE f = "summary" -> "Leaders met in Paris."
      [] f = "category" -> "Politics"
      [] f = "keywords" -> <<[text |-> "leader", relevance |-> "1.0"],
                             [text |-> "market", relevance |-> "0.5"]>>
      [] f = "topics" -> <<[name |-> "Politics: leader", keywords |-> <<"leader", "vote">>],
                           [name |-> "General: city", keywords |-> <<>>]>>
      [] f = "people" -> <<"Barack Obama">>
      [] f = "dates_events" -> <<[date |-> "Today", event |-> "Leaders met in Paris."],
                                 [event |-> "Talks go on."]>>

Emptied(f) == IF f \in {"summary", "category"} THEN "" ELSE <<>>

\* The results given to a renderer: every field absent, empty or filled
RenderedResults ==
    UNION {{[f \in present |-> IF f \in filled THEN Filling(f) ELSE Emptied(f)] :
              filled \in SUBSET present} : present \in SUBSET ResultFields}

RenderedData ==
    { [success |-> TRUE, title |-> "Leaders meet", url |-> "https://bbc.co.uk/news"],
      [success |-> TRUE] }

InitRender ==
    /\ pc = <<"render", "call">>
    /\ result \in RenderedResults
    /\ article_data \in RenderedData
    /\ article = EmptyArticle /\ faults = AllOK /\ DefaultArgs
    /\ summary = None /\ people = None /\ dates_events = None
    /\ category = None /\ keywords = None /\ topics = None
    /\ exc = NoError
    /\ NoTranslation
    /\ earlier = <<>>
    /\ url = <<>> /\ screen = <<>>
    /\ document = <<>>

Call_to_markdown ==
    /\ pc = <<"render", "call">>
    /\ document' = to_markdown(article_data, result)
    /\ pc' = <<"to_markdown", "done">>
    /\ UNCHANGED <<inputs, translator, calls, earlier, url, article_data, screen,
                   summary, people, dates_events, category, keywords, topics, exc, result>>

Call_to_pdf ==
    /\ pc = <<"render", "call">>
    /\ document' = to_pdf(article_data, result)
    /\ pc' = <<"to_pdf", "done">>
    /\ UNCHANGED <<inputs, translator, calls, earlier, url, article_data, screen,
                   summary, people, dates_events, category, keywords, topics, exc, result>>

Call_display_article_info ==
    /\ pc = <<"render", "call">>
    /\ \E show_mascot \in BOOLEAN, language \in Languages :
          screen' = display_article_info(article_data, result, show_mascot, language)
    /\ pc' = <<"display_article_info", "done">>
    /\ UNCHANGED <<inputs, translator, calls, earlier, url, article_data, document,
                   summary, people, dates_events, category, keywords, topics, exc, result>>

NextRender == Call_to_markdown \/ Call_to_pdf \/ Call_display_article_info

SpecRender == InitRender /\ [][NextRender]_vars

-----------------------------------------------------------------------------
(* utils/translator.py.  Dicts and lists are objects of the heap, known by  *)
(* their address; a dict or list holds values: strings (sequences of text   *)
(* pieces), booleans, None, and references to objects.                      *)

Str(s) == [t |-> "str", s |-> s, a |-> 0]
Ref(a) == [t |-> "ref", s |-> <<>>, a |-> a]
PyTrue == [t |-> "bool", s |-> <<>>, a |-> 1]
PyFalse == [t |-> "bool", s |-> <<>>, a |-> 0]
PyNone == [t |-> "none", s |-> <<>>, a |-> 0]

Dict(items) == [kind |-> "dict", items |-> items, elems |-> <<>>]
List(elems) == [kind |-> "list", items |-> <<>>, elems |-> elems]

\* bool(v)
Truthy(h, v) ==
    CASE v.t = "str" -> v.s # <<>>
      [] v.t = "bool" -> v.a = 1
      [] v.t = "none" -> FALSE
      [] v.t = "ref" -> IF h[v.a].kind = "list" THEN h[v.a].elems # <<>>
                        ELSE DOMAIN h[v.a].items # {}

\* d.get(key)
Get(items, key) == IF key \in DOMAIN items THEN items[key] ELSE PyNone

\* What the translation service does with a request
ReplyKinds == {"translated", "empty", "none", "error"}

\* lines 45-64 of translate_text: the content of the response, or the text
\* with the message of the exception
ServiceOutcome(text, language, reply) ==
    CASE reply = "translated" -> Str(<<"[", language, "] ">> \o text.s)
      [] reply = "empty" -> Str(<<>>)
      [] reply = "none" -> PyNone
      [] reply = "error" -> Str(text.s \o <<"\n\n[Translation Error: ", "Connection error.", "]">>)

\* (mutant) a text is sent to the service also when the target is English
AsksService_english(h, text, language) == Truthy(h, text)

\* translate_text asks the service unless the target is English or the text
\* is empty
AsksService(h, text, language) == language # "English" /\ Truthy(h, text)

\* translate_text(text, target_language), the service replying with reply
translate_text(h, text, language, reply) ==
    IF AsksService(h, text, language) THEN ServiceOutcome(text, language, reply) ELSE text

\* lines 84-85: the copy with the summary translated
WithSummary(h, original, language, reply) ==
    IF Truthy(h, Get(original, "summary"))
    THEN [original EXCEPT !["summary"] = translate_text(h, @, language, reply)]
    ELSE original

\* (mutant) the date of an entry is translated with its event
TranslatedEvent_with_date(h, date_event, language, reply) ==
    IF Truthy(h, Get(date_event, "event"))
    THEN [date_event EXCEPT !["event"] = translate_text(h, @, language, reply),
                            !["date"] = translate_text(h, @, language, reply)]
    ELSE date_event

\* lines 91-93: the copy of an entry with its event translated
TranslatedEvent(h, date_event, language, reply) ==
    IF Truthy(h, Get(date_event, "event"))
    THEN [date_event EXCEPT !["event"] = translate_text(h, @, language, reply)]
    ELSE date_event

\* the entries of nlp_result["dates_events"], or none if the field is
\* absent or empty
EventsOf(h, original) ==
    IF Truthy(h, Get(original, "dates_events")) THEN h[original["dates_events"].a].elems
    ELSE <<>>

\* requests made by one call
RequestsOf(h, original, language) ==
    (IF AsksService(h, Get(original, "summary"), language) THEN 1 ELSE 0) +
    Cardinality({i \in 1..Len(EventsOf(h, original)) :
        AsksService(h, Get(h[EventsOf(h, original)[i].a].items, "event"), language)})

\* (mutant) the summary is translated into the given dict itself
translate_nlp_result_in_place(h, r, language, reply_summary, reply_events) ==
    [heap |-> [h EXCEPT ![r] = Dict(WithSummary(h, h[r].items, language, reply_summary))],
     value |-> r,
     calls |-> IF AsksService(h, Get(h[r].items, "summary"), language) THEN 1 ELSE 0]

\* (mutant) English is translated like any other language
translate_nlp_result_always_copies(h, r, language, reply_summary, reply_events) ==
    [heap |-> h \o <<Dict(WithSummary(h, h[r].items, language, reply_summary))>>,
     value |-> Len(h) + 1,
     calls |-> IF AsksService(h, Get(h[r].items, "summary"), language) THEN 1 ELSE 0]

\* (mutant) the entries are translated in the copied list
translate_nlp_result_shared_entries(h, r, language, reply_summary, reply_events) ==
    IF language = "English" THEN [heap |-> h, value |-> r, calls |-> 0]
    ELSE [heap |-> [a \in 1..(Len(h) + 1) |->
                      IF a = Len(h) + 1
                      THEN Dict(WithSummary(h, h[r].items, language, reply_summary))
                      ELSE IF \E i \in 1..Len(EventsOf(h, h[r].items)) :
                                 EventsOf(h, h[r].items)[i].a = a
                           THEN Dict(TranslatedEvent(h, h[a].items, language,
                                    reply_events[CHOOSE i \in 1..Len(EventsOf(h, h[r].items)) :
                                                    EventsOf(h, h[r].items)[i].a = a]))
                           ELSE h[a]],
          value |-> Len(h) + 1,
          calls |-> RequestsOf(h, h[r].items, language)]

\* translate_nlp_result(nlp_result, target_language) on heap h, r the address
\* of nlp_result: the heap it leaves, the address it returns and the number
\* of requests it made.  The copy is allocated first, then the new list and
\* a copy of each entry.
translate_nlp_result(h, r, language, reply_summary, reply_events) ==
    IF language = "English" THEN [heap |-> h, value |-> r, calls |-> 0]
    ELSE LET original == h[r].items
             events == EventsOf(h, original)
             copy_at == Len(h) + 1
             list_at == Len(h) + 2
             copy == WithSummary(h, original, language, reply_summary)
         IN [heap |->
                 IF events = <<>> THEN h \o <<Dict(copy)>>
                 ELSE h \o <<Dict([copy EXCEPT !["dates_events"] = Ref(list_at)])>>
                        \o <<List([i \in 1..Len(events) |-> Ref(list_at + i)])>>
                        \o [i \in 1..Len(events) |->
                              Dict(TranslatedEvent(h, h[events[i].a].items, language,
                                                   reply_events[i]))],
             value |-> copy_at,
             calls |-> RequestsOf(h, original, language)]

-----------------------------------------------------------------------------
(* A call of translate_nlp_result by itself *)

EventTexts == <<"Obama met leaders.", "The market fell.", "Banks reacted.", "The team lost.">>

\* An entry of dates_events: with an event, with an empty event, or with
\* no event at all
EntryKinds == {"event", "blank", "dateonly"}

DateTexts == <<"Today", "March 5, 2024", "Last week", "5 May 2024">>

EntryDate(i) == Str(<<DateTexts[((i - 1) % Len(DateTexts)) + 1]>>)

EntryDict(kind, i) ==
    Dict(CASE kind = "event" -> [date |-> EntryDate(i),
                                 event |-> Str(<<EventTexts[((i - 1) % Len(EventTexts)) + 1]>>)]
           [] kind = "blank" -> [date |-> EntryDate(i), event |-> Str(<<>>)]
           [] kind = "dateonly" -> [date |-> EntryDate(i)])

\* The fields of a successful result; the lists are at addresses 2 to 5
ResultItems(summary_kind, has_events) ==
    [k \in {"success", "category", "people", "keywords", "topics"}
           \cup (IF summary_kind = "absent" THEN {} ELSE {"summary"})
           \cup (IF has_events THEN {"dates_events"} ELSE {}) |->
        CASE k = "success" -> PyTrue
          [] k = "category" -> Str(<<"Politics">>)
          [] k = "people" -> Ref(2)
          [] k = "keywords" -> Ref(3)
          [] k = "topics" -> Ref(4)
          [] k = "dates_events" -> Ref(5)
          [] k = "summary" -> IF summary_kind = "empty" THEN Str(<<>>)
                              ELSE Str(<<"Obama met leaders. The market fell.">>)]

\* The heap that holds a successful result at address 1
ResultHeap(summary_kind, has_events, entries) ==
    << Dict(ResultItems(summary_kind, has_events)),
       List(<<Str(<<"Obama">>), Str(<<"Merkel">>)>>),
       List(<<Str(<<"market">>)>>),
       List(<<>>) >>
    \o (IF has_events
        THEN <<List([i \in 1..Len(entries) |-> Ref(5 + i)])>>
             \o [i \in 1..Len(entries) |-> EntryDict(entries[i], i)]
        ELSE <<>>)

\* The heap that holds a failed result at address 1
FailedHeap == <<Dict([success |-> PyFalse, error |-> Str(<<"[E088] Text exceeds maximum length">>)])>>

ResultHeaps ==
    {FailedHeap}
    \cup {ResultHeap(s, FALSE, <<>>) : s \in {"absent", "empty", "text"}}
    \cup {ResultHeap(s, TRUE, es) : s \in {"absent", "empty", "text"},
                                    es \in SeqsUpTo(EntryKinds, MaxEvents)}

\* The state of utils/nlp_processor.py while another module runs
NlpAtRest ==
    /\ article = EmptyArticle /\ faults = AllOK /\ DefaultArgs
    /\ summary = None /\ people = None /\ dates_events = None
    /\ category = None /\ keywords = None /\ topics = None
    /\ exc = NoError /\ result = None
    /\ earlier = <<>>
    /\ NoPage
    /\ document = <<>>

InitTranslate ==
    /\ pc = <<"translate_nlp_result", "call">>
    /\ heap \in ResultHeaps
    /\ nlp_result = 1
    /\ target_language \in Languages
    /\ translated_result = 0
    /\ service_calls = 0
    /\ source_text = None /\ translated_text = None
    /\ calls = <<>>
    /\ NlpAtRest

\* The replies that matter: one per request made
RepliesFor(h, text, language) ==
    IF AsksService(h, text, language) THEN ReplyKinds ELSE {"unasked"}

\* lines 45-56: a request to the service and how it ended
Request(reply) == <<"client.chat.completions.create", reply>>

\* the requests made, in the order of the replies they got
Requests(replies) ==
    [i \in 1..Len(SelectSeq(replies, LAMBDA r : r # "unasked")) |->
        Request(SelectSeq(replies, LAMBDA r : r # "unasked")[i])]

Call_translate_nlp_result ==
    /\ pc = <<"translate_nlp_result", "call">>
    /\ \E events \in {EventsOf(heap, heap[nlp_result].items)} :
       \E reply_summary \in RepliesFor(heap, Get(heap[nlp_result].items, "summary"), target_language) :
       \E reply_events \in [1..Len(events) -> ReplyKinds \cup {"unasked"}] :
          /\ \A i \in 1..Len(events) :
                reply_events[i] \in RepliesFor(heap, Get(heap[events[i].a].items, "event"),
                                               target_language)
          /\ \E out \in {translate_nlp_result(heap, nlp_result, target_language,
                                              reply_summary, reply_events)} :
                /\ heap' = out.heap
                /\ translated_result' = out.value
                /\ service_calls' = service_calls + out.calls
                /\ calls' = calls \o Requests(<<reply_summary>> \o reply_events)
    /\ pc' = <<"translate_nlp_result", "returned">>
    /\ UNCHANGED <<inputs, summary, people, dates_events, category, keywords, topics, exc,
                   result, nlp_result, target_language, source_text, translated_text,
                   earlier, page, document>>

SpecTranslate == InitTranslate /\ [][Call_translate_nlp_result]_vars

-----------------------------------------------------------------------------
(* A call of translate_text by itself, and the two functions of             *)
(* utils/translator.py together                                            *)

\* Texts given to translate_text: none, the empty one, a header of the page,
\* a summary and an event
SourceTexts ==
    { PyNone, Str(<<>>), Str(<<"Key People">>),
      Str(<<"Obama met leaders. The market fell.">>), Str(<<EventTexts[1]>>) }

InitTranslateText ==
    /\ pc = <<"translate_text", "call">>
    /\ source_text \in SourceTexts
    /\ target_language \in Languages
    /\ translated_text = PyNone
    /\ heap = <<>> /\ nlp_result = 0 /\ translated_result = 0
    /\ service_calls = 0
    /\ calls = <<>>
    /\ NlpAtRest

Call_translate_text ==
    /\ pc = <<"translate_text", "call">>
    /\ \E reply \in RepliesFor(heap, source_text, target_language) :
          /\ translated_text' = translate_text(heap, source_text, target_language, reply)
          /\ calls' = calls \o Requests(<<reply>>)
          /\ service_calls' = service_calls + Len(Requests(<<reply>>))
    /\ pc' = <<"translate_text", "returned">>
    /\ UNCHANGED <<inputs, summary, people, dates_events, category, keywords, topics, exc,
                   result, heap, nlp_result, target_language, translated_result, source_text,
                   earlier, page, document>>

NextTranslator == Call_translate_nlp_result \/ Call_translate_text

SpecTranslator == (InitTranslate \/ InitTranslateText) /\ [][NextTranslator]_vars

-----------------------------------------------------------------------------
(* What the claims about extract_keywords speak of, stated on the tokens *)

Qualifying(token) ==
    /\ token.pos_ \in {"NOUN", "PROPN", "ADJ"}
    /\ token.is_stop = FALSE
    /\ token.is_punct = FALSE
    /\ Len(token.text.base) >= 3

LemmaKey(token) == [base |-> token.lemma_.base, form |-> "lower"]

QualifyingLemmas(runs) ==
    {LemmaKey(runs[i][1]) : i \in {j \in 1..Len(runs) : Qualifying(runs[j][1])}}

RECURSIVE Frequency(_, _)
Frequency(runs, l) ==
    IF runs = <<>> THEN 0
    ELSE (IF Qualifying(Head(runs)[1]) /\ LemmaKey(Head(runs)[1]) = l
          THEN Head(runs)[2] ELSE 0) + Frequency(Tail(runs), l)

FirstOccurrence(runs, l) ==
    CHOOSE i \in 1..Len(runs) :
        /\ Qualifying(runs[i][1]) /\ LemmaKey(runs[i][1]) = l
        /\ \A j \in 1..(i - 1) : ~(Qualifying(runs[j][1]) /\ LemmaKey(runs[j][1]) = l)

HighestFrequency(runs) ==
    LET fs == {Frequency(runs, l) : l \in QualifyingLemmas(runs)}
    IN IF fs = {} THEN 0 ELSE CHOOSE m \in fs : \A f \in fs : f <= m

KwReturned == pc = <<"extract_keywords", "returned">>

\* C8 as stated: every relevance is in (0, 1], and relevance 1.0 only for
\* the highest-frequency qualifying lemma.
C8_Original ==
    KwReturned =>
        \A i \in 1..Len(keywords) :
            /\ keywords[i].relevance \in 1..100
            /\ keywords[i].relevance = 100 =>
                  Frequency(article.tokens, keywords[i].text) = HighestFrequency(article.tokens)

\* C8 amended: every relevance is in [0, 1]; a highest-frequency lemma has
\* relevance 1.0; relevance 1.0 implies a frequency above 99.5% of the
\* highest, and relevance 0.0 a frequency below 1/200 of the highest.
C8_RelevanceRange ==
    KwReturned =>
        LET m == HighestFrequency(article.tokens) IN
        \A i \in 1..Len(keywords) :
            LET f == Frequency(article.tokens, keywords[i].text)
                rel == keywords[i].relevance
            IN /\ rel \in 0..100
               /\ f = m => rel = 100
               /\ rel = 100 => 200 * f > 199 * m
               /\ rel = 0 => 200 * f < m

\* a lemma 201 times rarer than the most frequent one is emitted with 0.0
C8_Witness ==
    /\ KwReturned /\ Len(keywords) = 2
    /\ keywords[1].relevance = 100 /\ keywords[2].relevance = 0

\* C9: the output is the max_keywords most frequent qualifying lemmas, in
\* non-increasing relevance, equal frequencies in order of first occurrence,
\* no lemma twice.
C9_TopKeywordsOrdered ==
    KwReturned =>
        LET runs == article.tokens
            L == QualifyingLemmas(runs)
            F(l) == Frequency(runs, l)
            O(l) == FirstOccurrence(runs, l)
            out == {keywords[i].text : i \in 1..Len(keywords)}
        IN /\ Len(keywords) = Min(max_keywords, Cardinality(L))
           /\ out \subseteq L
           /\ \A i, j \in 1..Len(keywords) :
                 i < j =>
                    /\ keywords[i].text # keywords[j].text
                    /\ keywords[i].relevance >= keywords[j].relevance
                    /\ \/ F(keywords[i].text) > F(keywords[j].text)
                       \/ /\ F(keywords[i].text) = F(keywords[j].text)
                          /\ O(keywords[i].text) < O(keywords[j].text)
           /\ \A l \in L \ out : \A k \in out :
                 \/ F(l) < F(k)
                 \/ F(l) = F(k) /\ O(l) > O(k)

\* two lemmas of equal frequency are emitted and a third is cut off
C9_Witness ==
    /\ KwReturned /\ Len(keywords) >= 2
    /\ Frequency(article.tokens, keywords[1].text) = Frequency(article.tokens, keywords[2].text)
    /\ Cardinality(QualifyingLemmas(article.tokens)) > max_keywords

\* C7: determine_category returns a member of the fixed category set, and
\* "General" exactly when no token that is neither a stop word nor
\* punctuation is, lower-cased, in a category's keyword set.
C7_CategoryClosure ==
    pc = <<"determine_category", "returned">> =>
        LET runs == article.tokens
            hit == \E i \in 1..Len(runs) :
                      /\ runs[i][1].is_stop = FALSE /\ runs[i][1].is_punct = FALSE
                      /\ \E k \in 1..Len(CategoryOrder) :
                            runs[i][1].text.base \in category_keywords(CategoryOrder[k])
        IN /\ category \in {"Politics", "Business", "Technology", "Health", "Sports",
                             "Entertainment", "Science", "General"}
           /\ category = "General" <=> ~hit

\* a capitalised keyword decides the category, and a text whose only
\* taxonomy words are a stop word and a punctuation token is General
C7_Witness ==
    /\ pc = <<"determine_category", "returned">>
    /\ \/ /\ category = "Business"
          /\ \A i \in 1..Len(article.tokens) : article.tokens[i][1].text.form # "lower"
       \/ /\ category = "General"
          /\ \E i \in 1..Len(article.tokens) : article.tokens[i][1].text.base = "show"
          /\ \E i \in 1..Len(article.tokens) : article.tokens[i][1].text.base = "star"

CatReturned == pc = <<"determine_category", "returned">>

\* the place of a category in the taxonomy as declared
TaxonomyPlace(c) == CHOOSE k \in 1..Len(CategoryOrder) : CategoryOrder[k] = c

\* how many tokens that are neither stop words nor punctuation are, in any
\* case of letters, in the keyword set of category c
RECURSIVE TokenScore(_, _)
TokenScore(runs, c) ==
    IF runs = <<>> THEN 0
    ELSE (IF /\ ~Head(runs)[1].is_stop /\ ~Head(runs)[1].is_punct
             /\ Head(runs)[1].text.base \in category_keywords(c)
          THEN Head(runs)[2] ELSE 0) + TokenScore(Tail(runs), c)

\* the categories of the highest score, when some token scores
TopCategories(runs) ==
    {c \in Range(CategoryOrder) :
        /\ TokenScore(runs, c) > 0
        /\ \A d \in Range(CategoryOrder) : TokenScore(runs, d) <= TokenScore(runs, c)}

\* the first place in the text of a token that scores for category c
FirstHit(runs, c) ==
    Least({i \in 1..Len(runs) :
             /\ ~runs[i][1].is_stop /\ ~runs[i][1].is_punct
             /\ runs[i][1].text.base \in category_keywords(c)})

\* C22: when several categories have the highest score, determine_category
\* returns the one of them declared first in the taxonomy, wherever their
\* words are in the text.
C22_TaxonomyOrderTie ==
    (CatReturned /\ TopCategories(article.tokens) # {}) =>
        /\ category \in TopCategories(article.tokens)
        /\ \A c \in TopCategories(article.tokens) : TaxonomyPlace(category) <= TaxonomyPlace(c)

\* Politics and Business tie and the Business word comes first in the text:
\* Politics is returned
C22_Witness ==
    /\ CatReturned
    /\ TopCategories(article.tokens) = {"Politics", "Business"}
    /\ FirstHit(article.tokens, "Business") < FirstHit(article.tokens, "Politics")
    /\ category = "Politics"

-----------------------------------------------------------------------------
(* What the claims about extract_dates_events speak of *)

\* The relative-time phrase as it occurs in the sentence: the characters at
\* the first case-insensitive occurrence of the first indicator found
IndicatorAsWritten(sentence) ==
    LET low == str_lower(sentence)
        hits == {k \in 1..Len(time_indicators) : contains(low, time_indicators[k])}
    IN IF hits = {} THEN NotFound
       ELSE LET ind == time_indicators[CHOOSE k \in hits : \A j \in hits : k <= j]
                at == {i \in 1..Len(low) : OccursAt(low, ind, i)}
                i == CHOOSE x \in at : \A y \in at : x <= y
            IN Found(SubSeq(sentence, i, i + Len(ind) - 1))

\* The date text matched in a sentence, by entity, pattern or indicator
MatchedDateText(sentence, ents) ==
    IF FirstDateEntity(ents).has_date THEN FirstDateEntity(ents)
    ELSE IF FirstPatternMatch(sentence).has_date THEN FirstPatternMatch(sentence)
    ELSE IndicatorAsWritten(sentence)

IsRelativeTime(sentence, ents) ==
    /\ ~FirstDateEntity(ents).has_date
    /\ ~FirstPatternMatch(sentence).has_date
    /\ IndicatorAsWritten(sentence).has_date

\* C10: every emitted event is its source sentence with the matched date
\* text removed, then trimmed; for a relative-time phrase matched
\* case-insensitively the phrase as written is gone from the event.
C10_EventWithoutDate ==
    pc = <<"extract_dates_events", "returned">> =>
        \A i \in 1..Len(dates_events) :
            \E j \in 1..Len(article.sents) :
                LET sentence == strip(article.sents[j].text)
                    ents == article.sents[j].ents
                    m == MatchedDateText(sentence, ents)
                IN /\ m.has_date
                   /\ dates_events[i].event = strip(remove_all(sentence, m.date_str))
                   /\ IsRelativeTime(sentence, ents) =>
                         ~contains(dates_events[i].event, m.date_str)

-----------------------------------------------------------------------------
(* What the claims about create_summary speak of *)

\* C6: a text of at most sentences_count sentences is returned verbatim,
\* the empty text included.
C6_ShortTextVerbatim ==
    (pc = <<"create_summary", "returned">> /\ Len(article.sents) <= sentences_count)
        => summary = article.text

\* a text of exactly sentences_count sentences that begins with a blank and
\* has two blanks between sentences comes back unchanged
C6_Witness ==
    /\ pc = <<"create_summary", "returned">>
    /\ Len(article.sents) = sentences_count
    /\ summary = article.text
    /\ summary[1] = " "
    /\ \E i \in 1..(Len(summary) - 1) : summary[i] = " " /\ summary[i + 1] = " "

\* the members of a set of positions, ascending
RECURSIVE Ascending(_)
Ascending(S) == IF S = {} THEN <<>> ELSE <<Least(S)>> \o Ascending(S \ {Least(S)})

\* texts with one blank between each two
RECURSIVE SpaceJoined(_)
SpaceJoined(texts) ==
    IF Len(texts) = 0 THEN <<>>
    ELSE IF Len(texts) = 1 THEN texts[1]
    ELSE texts[1] \o <<" ">> \o SpaceJoined(Tail(texts))

\* the stripped sentences at the positions of chosen, in document order
ChosenInOrder(sentences, chosen) ==
    [k \in 1..Len(chosen) |-> sentences[chosen[k]]]

\* no sentence left out scores more than one taken
TopScoring(sents, top) ==
    \A i \in top : \A j \in (1..Len(sents)) \ top :
        SentenceScore(sents, i) >= SentenceScore(sents, j)

SummaryOf(sents, top) ==
    SpaceJoined(ChosenInOrder(StrippedSentences(sents), Ascending(top)))

\* C20: of a text of more than sentences_count (5) sentences, create_summary
\* returns exactly that many sentences at distinct positions of the input, none
\* scoring less in row-sum similarity than a sentence left out, in document
\* order with one blank between them; fewer sentences than the input has.
C20_TopSentencesInOrder ==
    (pc = <<"create_summary", "returned">> /\ Len(article.sents) > sentences_count) =>
        \E top \in SUBSET (1..Len(article.sents)) :
            /\ Cardinality(top) = sentences_count
            /\ sentences_count < Len(article.sents)
            /\ TopScoring(article.sents, top)
            /\ summary = SummaryOf(article.sents, top)

\* six sentences of which the third scores less than every other: the
\* summary is the other five in their order
C20_Witness ==
    /\ pc = <<"create_summary", "returned">>
    /\ sentences_count = 5
    /\ Len(article.sents) = 6
    /\ \A i \in (1..6) \ {3} : SentenceScore(article.sents, 3) < SentenceScore(article.sents, i)
    /\ summary = SummaryOf(article.sents, (1..6) \ {3})

-----------------------------------------------------------------------------
(* What the claims about process_article speak of *)

PipelineOrder == <<"summary", "people", "dates_events", "category", "keywords", "topics">>

AnalysisFields == {"summary", "people", "dates_events", "category", "keywords", "topics"}

Done == pc = <<"process_article", "done">>

\* The outcomes a stage of process_article can have on the article
StageOutcomes(s) ==
    CASE s = "summary" -> create_summary(faults[s], article.text, article.sents, 5)
      [] s = "people" -> {extract_people(faults[s], article.ents)}
      [] s = "dates_events" -> {extract_dates_events(faults[s], article.sents)}
      [] s = "category" -> {determine_category(faults[s], article.tokens)}
      [] s = "keywords" -> {extract_keywords(faults[s], article.tokens, 10)}
      [] s = "topics" -> {identify_topics(faults[s], article.text, article.paras, hash_order, 5)}

StageRaises(s) == \E r \in StageOutcomes(s) : r.kind = "raise"

RaisedBy(s) == {r.error : r \in {x \in StageOutcomes(s) : x.kind = "raise"}}

\* The stages that raise and have no raising stage before them
FirstRaising ==
    {PipelineOrder[k] : k \in {i \in 1..Len(PipelineOrder) :
        /\ StageRaises(PipelineOrder[i])
        /\ \A j \in 1..(i - 1) : ~StageRaises(PipelineOrder[j])}}

\* C1: process_article never raises to its caller; if a stage raises, the
\* result has success=false and its error is the message of the error raised.
C1_NeverRaises ==
    /\ pc # <<"process_article", "raised">>
    /\ Done => \A s \in FirstRaising :
                  /\ result.success = FALSE
                  /\ result.error \in RaisedBy(s)

\* the last stage raises after the people stage swallowed another error, and
\* the result carries the last stage's message
C1_Witness ==
    /\ Done
    /\ result.success = FALSE
    /\ result.error = faults["topics"]
    /\ faults["people"] \notin {NoError, faults["topics"]}
    /\ article.text # <<>>

\* C2: a result has an error field iff success=false; a successful result
\* carries all six analysis fields with the values the stages returned, a
\* failed one none of them, whatever stages had completed.
C2_ErrorIffFailed ==
    Done =>
        /\ ("error" \in DOMAIN result) <=> (result.success = FALSE)
        /\ result.success = TRUE =>
              /\ DOMAIN result = {"success"} \cup AnalysisFields
              /\ result.summary = summary /\ result.people = people
              /\ result.dates_events = dates_events /\ result.category = category
              /\ result.keywords = keywords /\ result.topics = topics
        /\ result.success = FALSE => DOMAIN result = {"success", "error"}

\* five stages complete on an article with content, the sixth raises, and
\* the result holds only success and error
C2_Witness ==
    /\ Done
    /\ \A s \in Stages \ {"topics"} : faults[s] = NoError
    /\ faults["topics"] # NoError
    /\ article.ents # <<>>
    /\ DOMAIN result = {"success", "error"}

\* C3: an error inside the dates/events, keywords or topics stage makes that
\* stage return an empty sequence, so that process_article returns
\* success=true with that field empty when no other stage fails.
C3_RecoverableEmpty ==
    (Done /\ faults["summary"] = NoError /\ faults["category"] = NoError) =>
        /\ result.success = TRUE
        /\ \A s \in {"dates_events", "keywords", "topics"} :
              faults[s] # NoError => result[s] = <<>>

\* C4: extract_people never raises, an error inside it yields the empty
\* list, and an error of the people stage alone leaves success=true.
C4_PeopleNeverAbort ==
    /\ ~StageRaises("people")
    /\ faults["people"] # NoError => StageOutcomes("people") = {Return(<<>>)}
    /\ (pc = <<"process_article", "dates_events">> /\ faults["people"] # NoError) =>
          people = <<>> /\ exc = NoError
    /\ pc = <<"process_article", "except">> =>
          \E s \in Stages \ {"people"} : faults[s] = exc
    /\ (Done /\ \A s \in Stages \ {"people"} : faults[s] = NoError) =>
          /\ result.success = TRUE
          /\ faults["people"] # NoError => result.people = <<>>

\* the recognizer fails on an article that names persons, and the result is
\* a success with no people
C4_Witness ==
    /\ Done
    /\ faults["people"] # NoError
    /\ \E i \in 1..Len(article.ents) : article.ents[i].label_ = "PERSON"
    /\ result.success = TRUE
    /\ result.people = <<>>

-----------------------------------------------------------------------------
(* What the claim about the sizes of the outputs speaks of *)

\* C5: extract_keywords returns at most max_keywords entries, extract_people
\* at most 10, extract_dates_events at most 5, identify_topics at most
\* max_topics, and no topic has more than 5 keywords.
C5_SizeBounds ==
    /\ pc = <<"extract_keywords", "returned">> => Len(keywords) <= max_keywords
    /\ pc = <<"extract_people", "returned">> => Len(people) <= 10
    /\ pc = <<"extract_dates_events", "returned">> => Len(dates_events) <= 5
    /\ pc = <<"identify_topics", "returned">> =>
          /\ Len(topics) <= max_topics
          /\ \A i \in 1..Len(topics) : Len(topics[i].keywords) <= 5

\* more paragraphs make a topic than max_topics allows, and a paragraph of
\* seven distinct terms gives a topic of five keywords
C5_Witness ==
    /\ pc = <<"identify_topics", "returned">>
    /\ max_topics > 0
    /\ Len(topics) = max_topics
    /\ Len(article.paras) > max_topics
    /\ \E i \in 1..Len(topics) : Len(topics[i].keywords) = 5
    /\ \E i \in 1..Len(article.paras) :
          Cardinality(Range(KeyTerms(article.paras[i]))) > 5


-----------------------------------------------------------------------------
(* What the claims about the entries of extract_dates_events speak of *)

DatesReturned == pc = <<"extract_dates_events", "returned">>

\* the entry a stripped sentence with the date found in it gives
DateEntry(sentence, found) ==
    [date |-> found.date_str, event |-> EventOf(sentence, found.date_str)]

\* the sentence holds a date, is shorter than 300 characters and leaves an
\* event longer than 10 characters
PassesFilters(sentence, found) ==
    /\ found.has_date
    /\ Len(sentence) < 300
    /\ Len(DateEntry(sentence, found).event) > 10

Contributes(sent) == PassesFilters(strip(sent.text), DateOf(strip(sent.text), sent.ents))

EntryOfSentence(sent) == DateEntry(strip(sent.text), DateOf(strip(sent.text), sent.ents))

ContributingSentences == SelectSeq(article.sents, Contributes)

\* C11: the output is, in document order, the entries of the first five
\* sentences that hold a date, are shorter than 300 characters and leave an
\* event longer than 10 characters; each entry is made of the whole sentence.
C11_FirstFiveEntries ==
    DatesReturned =>
        \E from \in {ContributingSentences} :
            /\ Len(dates_events) = Min(5, Len(from))
            /\ \A i \in 1..Len(dates_events) : dates_events[i] = EntryOfSentence(from[i])

\* a dated sentence of 300 characters or more stands between two sentences
\* that give the two entries of the output
C11_Witness ==
    /\ DatesReturned
    /\ Len(article.sents) = 3
    /\ Len(strip(article.sents[2].text)) >= 300
    /\ DateOf(strip(article.sents[2].text), article.sents[2].ents).has_date
    /\ Len(dates_events) = 2

\* the places of the DATE entities among the entities of a sentence
DateEntities(ents) == {i \in 1..Len(ents) : ents[i].label_ = "DATE"}

\* the date patterns, by their place in date_patterns, that match a sentence
PatternsMatching(sentence) == {p \in 1..3 : re_search(p, sentence).has_date}

\* the date string the sources give in their order of priority: the text of
\* the first DATE entity; with no DATE entity, the match of the first pattern
\* that matches; with no match either, the first time indicator, capitalized
DateByPriority(sentence, ents) ==
    IF DateEntities(ents) # {} THEN ents[Least(DateEntities(ents))].text
    ELSE IF PatternsMatching(sentence) # {}
         THEN re_search(Least(PatternsMatching(sentence)), sentence).date_str
         ELSE capitalize(time_indicators[Least(IndicatorsIn(str_lower(sentence)))])

\* C23: every entry of the output carries the date of the highest source
\* that found one in its sentence, the sources being the DATE entities, then
\* the date patterns, then the time indicators; a sentence gives no more than
\* one entry.
C23_SourcePriority ==
    DatesReturned =>
        \E from \in {ContributingSentences} :
            /\ Len(dates_events) <= Len(from)
            /\ Len(from) <= Len(article.sents)
            /\ \A i \in 1..Len(dates_events) :
                  dates_events[i].date = DateByPriority(strip(from[i].text), from[i].ents)

\* a sentence holds a DATE entity and a match of a date pattern that differ,
\* and its entry carries the text of the entity
C23_Witness ==
    /\ DatesReturned
    /\ Len(article.sents) = 1
    /\ Len(dates_events) = 1
    /\ DateEntities(article.sents[1].ents) # {}
    /\ PatternsMatching(strip(article.sents[1].text)) # {}
    /\ FirstPatternMatch(strip(article.sents[1].text)).date_str # dates_events[1].date
    /\ dates_events[1].date = FirstDateEntity(article.sents[1].ents).date_str

\* a sentence holds a match of a date pattern and a time indicator and no DATE
\* entity, and its entry carries the match
PatternBeforeIndicator ==
    /\ DatesReturned
    /\ Len(article.sents) = 1
    /\ Len(dates_events) = 1
    /\ DateEntities(article.sents[1].ents) = {}
    /\ IndicatorsIn(str_lower(strip(article.sents[1].text))) # {}
    /\ dates_events[1].date = FirstPatternMatch(strip(article.sents[1].text)).date_str


-----------------------------------------------------------------------------
(* What the claim about the names of extract_people speaks of *)

PeopleReturned == pc = <<"extract_people", "returned">> /\ faults["people"] = NoError

PersonMentions == {i \in 1..Len(article.ents) : article.ents[i].label_ = "PERSON"}

PersonTexts == {article.ents[i].text : i \in PersonMentions}

\* where a name is mentioned first
FirstMention(t) == Least({i \in PersonMentions : article.ents[i].text = t})

\* C12: the output holds surface strings of person entities, none twice, in
\* the order of their first mention, and is the first 10 of all the distinct
\* strings in that order; strings that differ in letter case are distinct.
C12_PeopleFirstSeen ==
    PeopleReturned =>
        /\ Len(people) = Min(10, Cardinality(PersonTexts))
        /\ \A i \in 1..Len(people) : people[i] \in PersonTexts
        /\ \A i, j \in 1..Len(people) :
              i < j => FirstMention(people[i]) < FirstMention(people[j])
        /\ \A t \in PersonTexts \ Range(people) :
              \A i \in 1..Len(people) : FirstMention(people[i]) < FirstMention(t)

\* persons mentioned in two spellings are listed once per spelling, and
\* their repeated mentions add nothing
C12_Witness ==
    /\ PeopleReturned
    /\ Len(article.ents) = MaxEnts
    /\ Cardinality(PersonTexts) < Cardinality(PersonMentions)
    /\ \E i, j \in 1..Len(people) :
          /\ people[i] # people[j]
          /\ people[i].base = people[j].base


-----------------------------------------------------------------------------
(* What the claims about translate_nlp_result speak of *)

TranslateReturned == pc = <<"translate_nlp_result", "returned">>

\* A value with the objects it refers to in place of their addresses
RECURSIVE Deep(_, _)
Deep(h, v) ==
    IF v.t # "ref" THEN v
    ELSE IF h[v.a].kind = "list"
         THEN [kind |-> "list", elems |-> [i \in 1..Len(h[v.a].elems) |-> Deep(h, h[v.a].elems[i])]]
         ELSE [kind |-> "dict", items |-> [k \in DOMAIN h[v.a].items |-> Deep(h, h[v.a].items[k])]]

\* the dict given and the dict returned
Given == heap[nlp_result].items
Returned == heap[translated_result].items

\* C13: with target language English the call returns the result it was
\* given, leaves every object as it was and asks the translation service
\* nothing.
C13_EnglishUnchanged ==
    [][target_language = "English" =>
          /\ translated_result' = nlp_result
          /\ heap' = heap
          /\ service_calls' = service_calls]_vars

\* a result with a summary and an event comes back as it was, no request made
C13_Witness ==
    /\ TranslateReturned
    /\ target_language = "English"
    /\ translated_result = nlp_result
    /\ Truthy(heap, Get(Given, "summary"))
    /\ \E i \in 1..Len(EventsOf(heap, Given)) :
          Truthy(heap, Get(heap[EventsOf(heap, Given)[i].a].items, "event"))
    /\ service_calls = 0

\* C14: the returned result has the fields of the given one; every field but
\* summary and dates_events has the value it had, dates_events has as many
\* entries, and the i-th entry has the keys and, but for event, the values
\* of the i-th entry given.
C14_OnlySummaryAndEvents ==
    [][LET given == heap[nlp_result].items
           returned == heap'[translated_result'].items
           before == EventsOf(heap, given)
           after == EventsOf(heap', returned)
       IN /\ DOMAIN returned = DOMAIN given
          /\ \A k \in DOMAIN given \ {"summary", "dates_events"} :
                Deep(heap', returned[k]) = Deep(heap, given[k])
          /\ "summary" \in DOMAIN given /\ ~Truthy(heap, given["summary"]) =>
                returned["summary"] = given["summary"]
          /\ "dates_events" \in DOMAIN given /\ before = <<>> =>
                Deep(heap', returned["dates_events"]) = Deep(heap, given["dates_events"])
          /\ Len(after) = Len(before)
          /\ \A i \in 1..Len(before) :
                LET old == heap[before[i].a].items
                    new == heap'[after[i].a].items
                IN /\ DOMAIN new = DOMAIN old
                   /\ \A k \in DOMAIN old \ {"event"} : new[k] = old[k]]_vars

\* summary and both events are translated, and nothing else differs
C14_Witness ==
    /\ TranslateReturned
    /\ target_language # "English"
    /\ service_calls = 3
    /\ Returned["summary"] # Given["summary"]
    /\ Len(EventsOf(heap, Returned)) = 2
    /\ \A i \in 1..2 :
          /\ heap[EventsOf(heap, Returned)[i].a].items["event"] #
                heap[EventsOf(heap, Given)[i].a].items["event"]
          /\ heap[EventsOf(heap, Returned)[i].a].items["date"] = EntryDate(i)
    /\ Deep(heap, Returned["people"]) = Deep(heap, Given["people"])

\* C15 as stated: whatever the target language, no object given is changed
\* and the value returned is not the object given.
C15_Original ==
    [][/\ \A a \in 1..Len(heap) : heap'[a] = heap[a]
       /\ translated_result' # nlp_result]_vars

\* C15 amended: no object that exists at the call is changed.  For a target
\* language other than English the dict returned is a new object, and so
\* are its dates_events list and the entries of it when the list given is
\* not empty; for English the value returned is the object given.
C15_NeverMutates ==
    [][/\ Len(heap') >= Len(heap)
       /\ \A a \in 1..Len(heap) : heap'[a] = heap[a]
       /\ target_language = "English" => translated_result' = nlp_result
       /\ target_language # "English" =>
             /\ translated_result' > Len(heap)
             /\ LET after == EventsOf(heap', heap'[translated_result'].items)
                IN EventsOf(heap, heap[nlp_result].items) # <<>> =>
                      /\ heap'[translated_result'].items["dates_events"].a > Len(heap)
                      /\ \A i \in 1..Len(after) : after[i].a > Len(heap)]_vars

\* a translated copy exists beside the result given, which still has its
\* own summary and events
C15_Witness ==
    /\ TranslateReturned
    /\ target_language # "English"
    /\ translated_result # nlp_result
    /\ Given = ResultItems("text", TRUE)
    /\ Returned["summary"] # Given["summary"]
    /\ Len(EventsOf(heap, Given)) = MaxEvents
    /\ \A i \in 1..Len(EventsOf(heap, Given)) :
          heap[EventsOf(heap, Given)[i].a] = EntryDict("event", i)


\* a text that is None or empty
EmptyText(text) == text \in {PyNone, Str(<<>>)}

\* a text followed by the marker of a failed request
Marked(text) == Str(text.s \o <<"\n\n[Translation Error: ", "Connection error.", "]">>)

\* the requests a step makes
NewCalls == SubSeq(calls', Len(calls) + 1, Len(calls'))

Failed(request) == request[2] = "error"

\* C27: a call of translate_text returns; with the target English or the
\* text empty it makes no request and returns the text given, otherwise it
\* makes one request and, if that fails, returns the text followed by the
\* marker of the error.  A call of translate_nlp_result returns a dict, and
\* when all its requests fail the summary and the events of that dict are
\* those given with the marker after them.
C27_TranslatorNeverRaises ==
    [][/\ pc = <<"translate_text", "call">> =>
             /\ pc' = <<"translate_text", "returned">>
             /\ IF target_language = "English" \/ EmptyText(source_text)
                THEN /\ translated_text' = source_text
                     /\ NewCalls = <<>>
                     /\ service_calls' = service_calls
                ELSE /\ Len(NewCalls) = 1
                     /\ service_calls' = service_calls + 1
                     /\ Failed(NewCalls[1]) => translated_text' = Marked(source_text)
       /\ pc = <<"translate_nlp_result", "call">> =>
             /\ pc' = <<"translate_nlp_result", "returned">>
             /\ translated_result' \in 1..Len(heap')
             /\ heap'[translated_result'].kind = "dict"
             /\ (target_language # "English" /\ \A i \in 1..Len(NewCalls) : Failed(NewCalls[i])) =>
                   LET given == heap[nlp_result].items
                       returned == heap'[translated_result'].items
                       before == EventsOf(heap, given)
                       after == EventsOf(heap', returned)
                   IN /\ Truthy(heap, Get(given, "summary")) =>
                            returned["summary"] = Marked(given["summary"])
                      /\ Len(after) = Len(before)
                      /\ \A i \in 1..Len(before) :
                            Truthy(heap, Get(heap[before[i].a].items, "event")) =>
                               heap'[after[i].a].items["event"] =
                                  Marked(heap[before[i].a].items["event"])]_vars

\* the one request of a call of translate_text failed, and the text came
\* back with the marker
C27_Witness ==
    /\ pc = <<"translate_text", "returned">>
    /\ target_language # "English"
    /\ calls = <<Request("error")>>
    /\ translated_text = Marked(source_text)

\* the three requests of a call of translate_nlp_result failed, and a dict
\* came back
AllRequestsFailed ==
    /\ TranslateReturned
    /\ Len(calls) = 3
    /\ \A i \in 1..3 : Failed(calls[i])
    /\ Returned["summary"] = Marked(Given["summary"])

\* an empty text given with a target other than English came back as it was
EmptyTextReturned ==
    /\ pc = <<"translate_text", "returned">>
    /\ target_language # "English"
    /\ source_text = Str(<<>>)
    /\ translated_text = source_text
    /\ calls = <<>>

-----------------------------------------------------------------------------
(* What the claim about repeated calls of process_article speaks of *)

SecondDone == Done /\ Len(earlier) = 1

\* C16: a second call of process_article on the same text returns a result
\* equal to the first in every field, the keyword list of each topic
\* included.
C16_SameResultTwice == SecondDone => result = earlier[1].result

\* within one process the two results are equal
SameProcessSameResult ==
    (SecondDone /\ hash_order = earlier[1].hash_order) => result = earlier[1].result

\* across processes the two results are equal but for the keyword lists of
\* the topics, which hold the same terms when no list is cut
SameButTopicKeywords ==
    (SecondDone /\ result.success) =>
        /\ earlier[1].result.success
        /\ \A f \in AnalysisFields \ {"topics"} : result[f] = earlier[1].result[f]
        /\ Len(result.topics) = Len(earlier[1].result.topics)
        /\ \A i \in 1..Len(result.topics) :
              result.topics[i].name = earlier[1].result.topics[i].name


-----------------------------------------------------------------------------
(* What the claim about the summarize flow of the app speaks of *)

\* the URL is non-empty and valid, the extraction succeeded and has text
Analysable ==
    /\ url # <<>> /\ is_valid_url(url)
    /\ article_data.success
    /\ "text" \in DOMAIN article_data /\ article_data.text # EmptyArticle

InPipeline == pc[1] = "process_article"
ErrorShown == \E i \in 1..Len(screen) : screen[i].kind = "error"

\* C17: process_article is entered only when the URL is non-empty and valid,
\* extract_article returned success and the text is non-empty; in every other
\* case the handler ends with an error shown without having entered it.
C17_PipelineGuarded ==
    [][/\ (InPipeline' /\ ~InPipeline) => Analysable
       /\ (pc' = <<"main", "end">> /\ ~Analysable') => (ErrorShown' /\ ~InPipeline)]_vars

\* a valid URL whose text was extracted has been analysed and displayed
C17_Witness ==
    /\ pc = <<"main", "end">>
    /\ Analysable
    /\ screen = <<ArticleInfo>>

\* an extraction that succeeded without text ends in its own error
FoundWithoutContent ==
    /\ pc = <<"main", "end">>
    /\ article_data.success
    /\ screen = <<Error("The article was found but no content could be extracted")>>

\* what a step adds to the screen
NewScreen == SubSeq(screen', Len(screen) + 1, Len(screen'))

Translates(call) == call[1] = "translate_nlp_result"
Displays(call) == call[1] = "display_article_info"

\* C26: when process_article has returned success false, the handler shows
\* one error message that carries the error of the result and calls neither
\* translate_nlp_result nor display_article_info; when it has returned
\* success true, display_article_info is called, after translate_nlp_result
\* if the language selected is not English and alone if it is; and
\* display_article_info is called at no other time.
C26_FailedAnalysisOnlyError ==
    [][/\ pc = <<"process_article", "done">> =>
             IF ~result.success
             THEN /\ Len(NewScreen) = 1
                  /\ NewScreen[1].kind = "error"
                  /\ NewScreen[1].error = result.error
                  /\ NewCalls = <<>>
             ELSE /\ Len(NewCalls) = (IF target_language = "English" THEN 1 ELSE 2)
                  /\ Displays(NewCalls[Len(NewCalls)])
                  /\ target_language # "English" => Translates(NewCalls[1])
                  /\ NewScreen = <<ArticleInfo>>
       /\ (\E i \in 1..Len(NewCalls) : Displays(NewCalls[i]) \/ Translates(NewCalls[i])) =>
             (pc = <<"process_article", "done">> /\ result.success)]_vars

\* the analysis failed with another language than English selected: the
\* error of the result is all that is shown, and nothing was translated
C26_Witness ==
    /\ pc = <<"main", "end">>
    /\ target_language # "English"
    /\ screen = <<Failure("Failed to analyze article", [error |-> "[E002] Can't find factory"])>>
    /\ ~result.success
    /\ result.error = "[E002] Can't find factory"
    /\ \A i \in 1..Len(calls) : ~Translates(calls[i]) /\ ~Displays(calls[i])

\* the result was translated, then displayed
TranslatedThenDisplayed ==
    /\ pc = <<"main", "end">>
    /\ target_language = "Hindi"
    /\ Len(calls) >= 2
    /\ Translates(calls[Len(calls) - 1])
    /\ Displays(calls[Len(calls)])
    /\ screen = <<ArticleInfo>>

\* the result was displayed as it is
DisplayedInEnglish ==
    /\ pc = <<"main", "end">>
    /\ target_language = "English"
    /\ screen = <<ArticleInfo>>
    /\ \A i \in 1..Len(calls) : ~Translates(calls[i])

\* a step of extract_article
Extracting == pc = <<"main", "extract_article">>

\* what newspaper3k returned to the step, and whether and what the fallback did
ByNewspaper == NewCalls[1][2]
Consulted == Len(NewCalls) = 2
ByTrafilatura == NewCalls[2][2]

\* C28: extract_article calls extract_article_with_newspaper first and the
\* fallback after it, and that only when newspaper3k failed or found no text;
\* a successful newspaper3k result with text is returned as it is; and when
\* newspaper3k parsed the page without text and the fallback succeeds, the
\* result is that of newspaper3k, title, authors, publish_date and url
\* included, with the text of the fallback and success true.
C28_FallbackOnlyWhenNeeded ==
    [][Extracting =>
          /\ Len(NewCalls) \in {1, 2}
          /\ NewCalls[1][1] = "extract_article_with_newspaper"
          /\ Consulted =>
                /\ NewCalls[2][1] = "extract_article_with_trafilatura"
                /\ ~ByNewspaper.success \/ ByNewspaper.text = EmptyArticle
          /\ (ByNewspaper.success /\ ByNewspaper.text # EmptyArticle) =>
                article_data' = ByNewspaper
          /\ (ByNewspaper.success /\ ByNewspaper.text = EmptyArticle /\ Consulted
                /\ ByTrafilatura.success) =>
                /\ DOMAIN article_data' = DOMAIN ByNewspaper
                /\ \A k \in {"title", "authors", "publish_date", "url", "top_image"} :
                      article_data'[k] = ByNewspaper[k]
                /\ article_data'.text = ByTrafilatura.text
                /\ article_data'.success]_vars

\* newspaper3k parsed the page without text, the fallback found the text, and
\* the result has the title, the authors and the date of the first with the
\* text of the second
C28_Witness ==
    /\ pc = <<"main", "article_data">>
    /\ Len(calls) = 2
    /\ calls[1][2].success /\ calls[1][2].text = EmptyArticle
    /\ calls[2][2].success
    /\ article_data.success
    /\ article_data.title = "Leaders meet"
    /\ article_data.authors = <<"A. Writer">>
    /\ article_data.publish_date = "2024-03-05"
    /\ article_data.url = url
    /\ article_data.text = calls[2][2].text

\* newspaper3k found the text and the fallback was not called
FallbackNotConsulted ==
    /\ pc = <<"main", "article_data">>
    /\ Len(calls) = 1
    /\ article_data = calls[1][2]
    /\ article_data.text # EmptyArticle

\* C29: a call of extract_article returns a dict; its success is false exactly
\* when newspaper3k failed and the fallback, consulted, failed too, and its
\* error is then that of newspaper3k; a result returned after the fallback
\* succeeded has a text that is not empty; and the page shows the error of a
\* failed result.
C29_FailsOnlyWhenBothFail ==
    [][/\ Extracting =>
             /\ pc' = <<"main", "article_data">>
             /\ "success" \in DOMAIN article_data'
             /\ ~article_data'.success <=>
                   (~ByNewspaper.success /\ Consulted /\ ~ByTrafilatura.success)
             /\ ~article_data'.success =>
                   /\ "error" \in DOMAIN article_data'
                   /\ article_data'.error = ByNewspaper.error
             /\ (Consulted /\ ByTrafilatura.success) =>
                   /\ article_data'.success
                   /\ article_data'.text # EmptyArticle
       /\ (pc = <<"main", "article_data">> /\ ~article_data.success) =>
             /\ pc' = <<"main", "end">>
             /\ NewScreen[1].kind = "error"
             /\ NewScreen[1].error = article_data.error]_vars

\* both extractions failed, each with its own error, and the page shows that
\* of newspaper3k
C29_Witness ==
    /\ pc = <<"main", "end">>
    /\ Len(calls) = 2
    /\ ~calls[1][2].success /\ ~calls[2][2].success
    /\ calls[2][2].error # calls[1][2].error
    /\ ~article_data.success
    /\ article_data.error = calls[1][2].error
    /\ screen = <<Failure("Failed to extract article", article_data), Tips>>

\* newspaper3k failed and the fallback found the text: its dict is returned
FallbackAlone ==
    /\ pc = <<"main", "article_data">>
    /\ Len(calls) = 2
    /\ ~calls[1][2].success
    /\ article_data = calls[2][2]
    /\ article_data.success

\* newspaper3k parsed the page without text and the fallback failed: the
\* result is a success without text
SuccessWithoutText ==
    /\ pc = <<"main", "article_data">>
    /\ Len(calls) = 2
    /\ ~calls[2][2].success
    /\ article_data.success
    /\ article_data.text = EmptyArticle


-----------------------------------------------------------------------------
(* What the claim about the renderers speaks of *)

SectionFields == {"keywords", "topics", "people", "dates_events"}

SectionTitle(f) ==
    CASE f = "keywords" -> "Keywords"
      [] f = "topics" -> "Main Topics"
      [] f = "people" -> "Key People Mentioned"
      [] f = "dates_events" -> "Important Dates & Events"

\* the sections a rendering holds
SectionsIn(lines) ==
    {f \in SectionFields : \E i \in 1..Len(lines) :
        lines[i].kind = "h2" /\ lines[i].text[1] = SectionTitle(f)}

\* the fields of the result that are present and not empty
FilledFields == {f \in SectionFields : Filled(result, f)}

Mentions(lines, kind, part) ==
    \E i \in 1..Len(lines) :
        lines[i].kind = kind /\ \E j \in 1..Len(lines[i].text) : lines[i].text[j] = part

\* a rendering has the sections of the filled fields and the default texts
WellRendered(lines, body) ==
    /\ SectionsIn(lines) = FilledFields
    /\ "summary" \notin DOMAIN result => Mentions(lines, body, "Summary not available")
    /\ "category" \notin DOMAIN result => \E k \in {"text", "cell", "info"} :
                                            Mentions(lines, k, "Uncategorized")

Exported == pc \in {<<"to_markdown", "done">>, <<"to_pdf", "done">>}
Displayed == pc = <<"display_article_info", "done">>

\* C18: on a result in which any of the fields is absent or empty, each of
\* the three renderers completes without raising, renders the section of a
\* field exactly when the field is present and not empty, and writes the
\* default text for an absent summary or category.
C18_RenderersTolerant ==
    /\ Exported => (document.kind = "return"
                    /\ WellRendered(document.value,
                                    IF pc[1] = "to_pdf" THEN "multi_cell" ELSE "text"))
    /\ Displayed => WellRendered(screen, "write")

\* the Markdown and the page are rendered so
MarkdownAndPageTolerant ==
    /\ pc = <<"to_markdown", "done">> =>
          (document.kind = "return" /\ WellRendered(document.value, "text"))
    /\ Displayed => WellRendered(screen, "write")

\* the PDF is rendered so exactly when the result has no keyword and no person
PdfRaisesOnBullets ==
    pc = <<"to_pdf", "done">> =>
        IF Filled(result, "keywords") \/ Filled(result, "people")
        THEN document.kind = "raise"
        ELSE document.kind = "return" /\ WellRendered(document.value, "multi_cell")


-----------------------------------------------------------------------------
(* What the claim about the empty text speaks of *)

\* what process_article returns when nothing is found
EmptyResult ==
    [success |-> TRUE, summary |-> <<>>, people |-> <<>>, dates_events |-> <<>>,
     category |-> "General", keywords |-> <<>>, topics |-> <<>>]

\* C19: on the empty text, nlp raising nothing, process_article returns
\* success with the empty summary, no people, dates_events, keywords or topics
\* and the category "General".
C19_EmptyText ==
    (Done /\ article = EmptyArticle /\ faults = AllOK) => result = EmptyResult

\* the call on the empty text has returned
C19_Witness ==
    /\ Done
    /\ article.text = <<>> /\ article.sents = <<>> /\ article.tokens = <<>>
    /\ faults = AllOK
    /\ result.success
    /\ result.category = "General"


-----------------------------------------------------------------------------
(* What the claims about identify_topics speak of *)

TopicsReturned == pc = <<"identify_topics", "returned">>

\* the key terms of the paragraphs that contribute a topic, in document order
TopicGroups == KeywordGroups(Paragraphs(article.text), article.paras, 1)

\* the topics made of them, before they are sorted
CandidatesOf(groups, order) == [g \in 1..Len(groups) |-> TopicOf(groups[g][2], order)]
Candidates == CandidatesOf(TopicGroups, hash_order)

\* candidate i is ranked before candidate j: more keywords, or as many and
\* an earlier paragraph
RankedBefore(cands, i, j) ==
    \/ Len(cands[i].keywords) > Len(cands[j].keywords)
    \/ Len(cands[i].keywords) = Len(cands[j].keywords) /\ i < j

\* topicList is the first n of cands in that ranking
FirstRanked(topicList, cands, n) ==
    /\ Len(topicList) = Min(n, Len(cands))
    /\ \E from \in [1..Len(topicList) -> 1..Len(cands)] :
          /\ \A k \in 1..Len(topicList) : topicList[k] = cands[from[k]]
          /\ \A k, l \in 1..Len(topicList) : k < l => RankedBefore(cands, from[k], from[l])
          /\ \A j \in 1..Len(cands) : (\A k \in 1..Len(topicList) : from[k] # j) =>
                \A k \in 1..Len(topicList) : RankedBefore(cands, from[k], j)

\* C21: the topics returned are the first max_topics of the candidates
\* ordered by non-increasing length of their keyword list, candidates of equal
\* length in the document order of their paragraphs.
C21_TopicsRanked ==
    TopicsReturned => \E cands \in {Candidates} : FirstRanked(topics, cands, max_topics)

\* three paragraphs contribute; the third has the longest keyword list and
\* comes first, the first comes second ahead of the second of equal length
C21_Witness ==
    /\ TopicsReturned
    /\ max_topics = 2
    /\ Len(Candidates) = 3
    /\ Len(Candidates[3].keywords) = 5
    /\ Len(Candidates[1].keywords) = 3
    /\ Len(Candidates[2].keywords) = 3
    /\ Candidates[1] # Candidates[2]
    /\ topics = <<Candidates[3], Candidates[1]>>


\* how often the terms of a paragraph are in the keyword set of a category
Hits(terms, c) == Cardinality({i \in 1..Len(terms) : InKeywords(terms[i], c)})

\* how often a term occurs among the terms of a paragraph
Occurrences(terms, t) == Cardinality({i \in 1..Len(terms) : terms[i] = t})

\* c is a category the terms hit most often, "General" when they hit none
DominantCategory(terms, c) ==
    IF \A d \in Range(CategoryOrder) : Hits(terms, d) = 0
    THEN c = "General"
    ELSE /\ c \in Range(CategoryOrder)
         /\ \A d \in Range(CategoryOrder) : Hits(terms, d) <= Hits(terms, c)

\* shown are at most 3 distinct terms, the most frequent ones, in descending
\* frequency
MostFrequentTerms(terms, shown) ==
    /\ Len(shown) = Min(3, Cardinality(Range(terms)))
    /\ \A k \in 1..Len(shown) : shown[k] \in Range(terms)
    /\ \A k, l \in 1..Len(shown) : k < l =>
          /\ shown[k] # shown[l]
          /\ Occurrences(terms, shown[k]) >= Occurrences(terms, shown[l])
    /\ \A t \in Range(terms) \ Range(shown) : \A k \in 1..Len(shown) :
          Occurrences(terms, shown[k]) >= Occurrences(terms, t)

\* the terms a name shows: its pieces are the category, ": ", and the terms
\* with ", " between them
TermsShown(name) == [k \in 1..((Len(name) - 1) \div 2) |-> Word(name[2 * k + 1], "lower")]

\* name is "<category>: <terms>" for the terms of a paragraph
WellNamed(name, terms) ==
    /\ Len(name) >= 3 /\ Len(name) % 2 = 1
    /\ name[2] = ": "
    /\ \A k \in 2..((Len(name) - 1) \div 2) : name[2 * k] = ", "
    /\ DominantCategory(terms, name[1])
    /\ MostFrequentTerms(terms, TermsShown(name))

NamedAfter(topicList, groups, cands) ==
    \A k \in 1..Len(topicList) : \E g \in 1..Len(groups) :
        topicList[k] = cands[g] /\ WellNamed(cands[g].name, groups[g][2])

\* C24: the name of every topic returned is "<category>: <terms>", the
\* category one the terms of its paragraph hit most often ("General" when
\* they hit none), the terms the at most 3 most frequent of the paragraph,
\* comma-joined in descending frequency.
C24_TopicNames ==
    TopicsReturned =>
        \E groups \in {TopicGroups} : NamedAfter(topics, groups, CandidatesOf(groups, hash_order))

\* a topic of a paragraph with seven distinct terms, one of them twice, two
\* of them in the Business set: "Business: storm, river, city"
C24_Witness ==
    /\ TopicsReturned
    /\ Len(topics) >= 1
    /\ topics[1].name = <<"Business", ": ", "storm", ", ", "river", ", ", "city">>

\* the distinct key terms of the paragraphs that are at least 100 characters
\* long
LongParagraphTerms(paragraphs, paras) ==
    {Range(KeyTerms(paras[i])) : i \in {j \in 1..Len(paragraphs) : Len(paragraphs[j]) >= 100}}

\* C25: when no paragraph is at least 100 characters long and yields more
\* than one qualifying term, identify_topics returns no topic.
C25_NoTopicWithoutTerms ==
    (TopicsReturned
       /\ \A terms \in LongParagraphTerms(Paragraphs(article.text), article.paras) :
             Cardinality(terms) <= 1)
      => topics = <<>>

\* topics come only from paragraphs of at least 100 characters with more
\* than one occurrence of a qualifying term
OnlyLongParagraphs ==
    (TopicsReturned
       /\ \A i \in 1..Len(article.paras) :
             Len(Paragraphs(article.text)[i]) < 100 \/ Len(KeyTerms(article.paras[i])) <= 1)
      => topics = <<>>

=============================================================================
